---- MODULE Spec2Model ----
(***************************************************************************)
(* Horizon home-energy digital twin: the device physics models             *)
(* (ml/device_models.py), the room thermal model (ml/thermal_model.py),    *)
(* the twin orchestrator (ml/digital_twin.py), the process-wide singleton  *)
(* with its HTTP routes (backend/twin_engine.py, backend/routes.py), the   *)
(* recommendation engine (ml/optimizer.py) and the autopilot run limits    *)
(* (backend/autopilot_state.py).                                           *)
(*                                                                         *)
(* Numbers are fixed point, exact where the code rounds:                   *)
(*   temperatures            1/100 degree C   (round(x, 2))                *)
(*   power, cooling, heat    W = 1/1000 kW    (round(x, 3))                *)
(*   cop                     1/10000                                       *)
(*   compressor_load_pct     1/10 percent                                  *)
(*   total_energy_kwh        1/10000 kWh      (round(x, 4))                *)
(*   cost_aed, co2_kg        1/100            (round(x, 2))                *)
(*   runtime_minutes, dt     seconds = 1/60 minute                         *)
(*   humidity_pct            1/10 percent     (round(x, 1))                *)
(*   hour of day             minutes since 00:00 UTC                       *)
(* round() is Python's: the nearest multiple, an exact tie to the even one.*)
(***************************************************************************)
EXTENDS Integers, Sequences, FiniteSets, TLC

VARIABLES
    acm,        \* a stand-alone ACModel (state and _was_on)
    ac_steps,   \* number of ACModel.step calls made on acm
    twin,       \* twin_engine._twin: NoTwin, or the HomeTwinModel
    hour,       \* time of day of the run, minutes since 00:00 UTC
    now,        \* the latest reading of time.time(), seconds
    result,     \* what the engine call of the latest step returned or raised
    db,         \* the database rows read at startup and by the routes
    resp,       \* the HTTP response of the latest step, if it was a request
    thread,     \* the ingest in progress on the event loop, if any
    snap,       \* the latest snapshot a poller got during that ingest
    evm,        \* a stand-alone EVChargerModel
    whm,        \* a stand-alone WaterHeaterModel
    wdm,        \* a stand-alone WasherDryerModel
    rtm,        \* a stand-alone RoomThermalModel
    unit_steps, \* number of step calls made on the stand-alone models
    unit_in,    \* the arguments of the latest of those step calls
    autopilot_state \* autopilot_state._autopilot_state: home id -> dict

acVars == <<acm, ac_steps>>
unitVars == <<evm, whm, wdm, rtm, unit_steps, unit_in>>
twinVars == <<twin, hour, now, result>>
concVars == <<thread, snap>>
vars == <<acm, ac_steps, twin, hour, now, result, db, resp, thread, snap, evm, whm, wdm, rtm, unit_steps, unit_in, autopilot_state>>

-----------------------------------------------------------------------------
(* Arithmetic helpers                                                      *)

Max(a, b) == IF a >= b THEN a ELSE b

Min(a, b) == IF a <= b THEN a ELSE b

\* round(n / d) for d > 0: nearest integer, ties to even.
Round(n, d) ==
    LET q == n \div d
        r == n % d
    IN  IF 2 * r > d THEN q + 1
        ELSE IF 2 * r < d THEN q
        ELSE IF q % 2 = 0 THEN q ELSE q + 1

-----------------------------------------------------------------------------
(* ACModel, ml/device_models.py                                            *)

RATED_POWER_KW == 1800

COP_NOMINAL == 32000

MIN_COMPRESSOR_PCT == 300

ACState ==
    [ setpoint_c |-> 2400, room_temp_c |-> 2500, status |-> "on",
      power_kw |-> 0, cooling_output_kw |-> 0, cop |-> 30000,
      compressor_load_pct |-> 0, runtime_minutes |-> 0, cycles_today |-> 0 ]

ACModel(device_id, room_id, name) ==
    [ device_id |-> device_id, room_id |-> room_id, name |-> name,
      state |-> ACState, was_on |-> FALSE ]

\* A slip: only the switch-on edge is counted.
ACCycles_RisingOnly(m, on_now) ==
    IF ~m.was_on /\ on_now THEN m.state.cycles_today + 1
    ELSE m.state.cycles_today

\* cycles_today after a step to `on_now`: every change of _was_on counts.
ACCycles(m, on_now) ==
    IF m.was_on # on_now THEN m.state.cycles_today + 1
    ELSE m.state.cycles_today

\* A slip: every not-on step counts as a cycle.
ACStepNotOn_CountsEvery(m, s) ==
    [ m EXCEPT !.state = [ s EXCEPT !.power_kw = 0,
                                    !.cooling_output_kw = 0,
                                    !.compressor_load_pct = 0,
                                    !.cycles_today = @ + 1 ],
               !.was_on = FALSE ]

\* The branch taken when status != "on".
ACStepNotOn(m, s) ==
    [ m EXCEPT !.state = [ s EXCEPT !.power_kw = 0,
                                    !.cooling_output_kw = 0,
                                    !.compressor_load_pct = 0,
                                    !.cycles_today = ACCycles(m, FALSE) ],
               !.was_on = FALSE ]

\* max(1.5, COP_NOMINAL - 0.05 * max(0, outside - 35))
ACCop(outside_temp_c) ==
    Max(15000, COP_NOMINAL - 5 * Max(0, outside_temp_c - 3500))

\* A slip: the ramp without its 100% cap.
ACCompressorPct_NoCap(room_temp_c, setpoint_c) ==
    LET temp_error == room_temp_c - setpoint_c
    IN  IF temp_error <= 0 THEN MIN_COMPRESSOR_PCT
        ELSE MIN_COMPRESSOR_PCT + temp_error * 2

\* The proportional controller on (room_temp - setpoint).
ACCompressorPct(room_temp_c, setpoint_c) ==
    LET temp_error == room_temp_c - setpoint_c
    IN  IF temp_error <= 0 THEN MIN_COMPRESSOR_PCT
        ELSE Min(1000, MIN_COMPRESSOR_PCT + temp_error * 2)

\* The branch taken when status = "on".
ACStepOn(m, s, dt_seconds, room_temp_c, outside_temp_c, setpoint_c) ==
    LET cop == ACCop(outside_temp_c)
        compressor_pct == ACCompressorPct(room_temp_c, setpoint_c)
        power == Round(RATED_POWER_KW * compressor_pct, 1000)
        cooling == Round(power * cop, 10000)
    IN  [ m EXCEPT !.state = [ s EXCEPT !.cycles_today = ACCycles(m, TRUE),
                                        !.cop = cop,
                                        !.compressor_load_pct = compressor_pct,
                                        !.power_kw = power,
                                        !.cooling_output_kw = cooling,
                                        !.runtime_minutes = @ + dt_seconds ],
                   !.was_on = TRUE ]

ACModel_step(m, dt_seconds, room_temp_c, outside_temp_c, setpoint_c, status) ==
    LET s == [ m.state EXCEPT !.setpoint_c = setpoint_c,
                              !.room_temp_c = room_temp_c,
                              !.status = status ]
    IN  IF status # "on" THEN ACStepNotOn(m, s)
        ELSE ACStepOn(m, s, dt_seconds, room_temp_c, outside_temp_c, setpoint_c)

get_cooling_kw(m) == m.state.cooling_output_kw

-----------------------------------------------------------------------------
(* EVChargerModel, ml/device_models.py                                     *)
(*   soc_pct 1/100 %; max_charge_rate_kw 1/10 kW; battery_capacity_kwh kWh;*)
(*   energy_delivered_kwh is never rounded by the code: it is kept exact   *)
(*   as whole Wh plus a remainder in 1/2250000 Wh;                         *)
(*   time_to_target_minutes 1/10 minute.                                   *)

CV_TAPER_START_SOC == 8000

EVState ==
    [ soc_pct |-> 4500, status |-> "standby", power_kw |-> 0,
      max_charge_rate_kw |-> 70, battery_capacity_kwh |-> 60,
      energy_delivered_kwh |-> [ wh |-> 0, frac |-> 0 ],
      estimated_full_time |-> "None",
      estimated_target_time |-> "None", time_to_target_minutes |-> 0 ]

EVChargerModel(device_id, room_id, name) ==
    [ device_id |-> device_id, room_id |-> room_id, name |-> name,
      state |-> EVState ]

RECURSIVE GCD(_, _)
GCD(a, b) == IF b = 0 THEN a ELSE GCD(b, a % b)

\* round(base + n / d) for an integer base and d > 0, ties to even.
RoundFrom(base, n, d) ==
    LET q == n \div d
        r == n % d
    IN  IF 2 * r > d THEN base + q + 1
        ELSE IF 2 * r < d THEN base + q
        ELSE IF (base + q) % 2 = 0 THEN base + q ELSE base + q + 1

\* round(a * b / c) for a, b >= 0 and c > 0, with b / c reduced first.
RoundMulDiv(a, b, c) ==
    LET g == GCD(b, c)
    IN  Round(a * (b \div g), c \div g)

\* self.state.energy_delivered_kwh += energy_step, where energy_step is
\* rate * dt_seconds in 1/2250000 Wh; dt_seconds is reduced against the
\* unit first so that an hour-long step stays within the integers.
EVEnergyAdd(e, rate, dt_seconds) ==
    LET g == GCD(dt_seconds, 2250000)
        n == rate * (dt_seconds \div g)
        d == 2250000 \div g
        frac == e.frac + (n % d) * g
    IN  [ wh |-> e.wh + n \div d + frac \div 2250000,
          frac |-> frac % 2250000 ]

\* A slip: the full rate at every SOC.
EVRateFraction_NoTaper(soc_pct) == 2500 + 0 * soc_pct

\* charge_rate as a fraction of max_charge_rate_kw, in 1/2500:
\* 1 below 80% SOC, max(0.2, 1 - 0.8 * (soc - 80) / 20) from there on.
EVRateFraction(soc_pct) ==
    IF soc_pct < CV_TAPER_START_SOC THEN 2500
    ELSE Max(500, 2500 - (soc_pct - CV_TAPER_START_SOC))

\* The early returns of step: not plugged in, full, or at the target.
EVStepIdle(m, plugged_in, target_soc) ==
    IF ~plugged_in \/ m.state.soc_pct >= 10000
    THEN [ m EXCEPT !.state.power_kw = 0,
                    !.state.status = IF m.state.soc_pct >= target_soc
                                     THEN "complete" ELSE "standby" ]
    ELSE [ m EXCEPT !.state.power_kw = 0, !.state.status = "complete" ]

\* The charging branch of step.  CHARGE_EFFICIENCY = 0.92 = 23/25.
EVStepCharge(m, dt_seconds, target_soc) ==
    LET st == m.state
        f == EVRateFraction(st.soc_pct)
        \* charge_rate * CHARGE_EFFICIENCY, in 1/2250000 Wh per second;
        \* energy_step is this times dt_seconds
        rate == st.max_charge_rate_kw * f * 23
        g == GCD(dt_seconds, 225000 * st.battery_capacity_kwh)
        soc == Min(10000, RoundFrom(st.soc_pct, rate * (dt_seconds \div g),
                                    (225000 * st.battery_capacity_kwh) \div g))
        remaining == target_soc - soc
        ttt == IF st.max_charge_rate_kw * f > 0 /\ remaining > 0
               THEN RoundMulDiv(remaining * st.battery_capacity_kwh, 37500,
                                st.max_charge_rate_kw * f * 23)
               ELSE 0
    IN  [ m EXCEPT !.state.power_kw = Round(st.max_charge_rate_kw * f, 25),
                   !.state.status = "charging",
                   !.state.energy_delivered_kwh =
                       EVEnergyAdd(@, rate, dt_seconds),
                   !.state.soc_pct = soc,
                   !.state.time_to_target_minutes = ttt ]

\* A slip: charging goes on past the target, up to 100%.
EVChargerModel_step_NoTargetStop(m, dt_seconds, plugged_in, target_soc, departure_time) ==
    IF ~plugged_in \/ m.state.soc_pct >= 10000
    THEN EVStepIdle(m, plugged_in, target_soc)
    ELSE EVStepCharge(m, dt_seconds, target_soc)

\* departure_time is accepted and never read by step.
EVChargerModel_step(m, dt_seconds, plugged_in, target_soc, departure_time) ==
    IF ~plugged_in \/ m.state.soc_pct >= 10000 \/ m.state.soc_pct >= target_soc
    THEN EVStepIdle(m, plugged_in, target_soc)
    ELSE EVStepCharge(m, dt_seconds, target_soc)

-----------------------------------------------------------------------------
(* WaterHeaterModel, ml/device_models.py                                   *)
(*   heat_loss_rate_kw 1/10000 kW; energy_stored_kwh 1/100 kWh.            *)

ELEMENT_POWER_KW == 3000

DEAD_BAND_C == 300

AMBIENT_C == 2800

WaterHeaterState ==
    [ water_temp_c |-> 4500, target_temp_c |-> 6000, status |-> "on",
      power_kw |-> 0, element_on |-> FALSE, heat_loss_rate_kw |-> 0,
      energy_stored_kwh |-> 0 ]

WaterHeaterModel(device_id, room_id, name) ==
    [ device_id |-> device_id, room_id |-> room_id, name |-> name,
      state |-> WaterHeaterState ]

\* A slip: a thermostat without dead-band memory, on whenever below target.
WHElementOn_NoHysteresis(st, status_override) ==
    status_override # "off" /\ st.water_temp_c < st.target_temp_c

\* A slip: a thermostat that never switches the element off at the target.
WHElementOn_NeverOff(st, status_override) ==
    /\ status_override # "off"
    /\ (st.water_temp_c < st.target_temp_c - DEAD_BAND_C \/ st.element_on)

\* Thermostat with hysteresis; an "off" override forces the element off.
WHElementOn(st, status_override) ==
    IF status_override = "off" THEN FALSE
    ELSE IF st.water_temp_c < st.target_temp_c - DEAD_BAND_C THEN TRUE
    ELSE IF st.water_temp_c >= st.target_temp_c THEN FALSE
    ELSE st.element_on

\* A slip: the off override leaves power_kw as the previous step set it.
WaterHeaterModel_step_OffKeepsPower(m, dt_seconds, status_override) ==
    LET st == m.state
        on == WHElementOn(st, status_override)
        status == IF status_override = "off" THEN "off"
                  ELSE IF on THEN "heating" ELSE "standby"
        power == IF status_override = "off" THEN st.power_kw
                 ELSE IF on THEN ELEMENT_POWER_KW ELSE 0
        q_input == IF on THEN 95 * power ELSE 0
        delta_t == Max(0, st.water_temp_c - AMBIENT_C)
        temp == Max(AMBIENT_C,
                    RoundFrom(st.water_temp_c,
                              (q_input - 2 * delta_t) * dt_seconds, 837000))
    IN  [ m EXCEPT !.state.status = status,
                   !.state.element_on = on,
                   !.state.power_kw = power,
                   !.state.heat_loss_rate_kw = Round(delta_t, 5),
                   !.state.water_temp_c = temp,
                   !.state.energy_stored_kwh =
                       Round(2325 * (temp - AMBIENT_C), 10000) ]

\* ELEMENT_EFFICIENCY = 0.95, LOSS_COEFF_KW_PER_K = 0.002,
\* THERMAL_MASS_KWH_PER_K = 0.2325:
\* dT [1/100 C] = (q_input - q_loss) * dt_hours / 0.2325
\*              = (285000 * on - 2 * max(0, T - ambient)) * dt / 837000.
WaterHeaterModel_step(m, dt_seconds, status_override) ==
    LET st == m.state
        on == WHElementOn(st, status_override)
        status == IF status_override = "off" THEN "off"
                  ELSE IF on THEN "heating" ELSE "standby"
        power == IF on THEN ELEMENT_POWER_KW ELSE 0
        q_input == IF on THEN 95 * power ELSE 0
        delta_t == Max(0, st.water_temp_c - AMBIENT_C)
        temp == Max(AMBIENT_C,
                    RoundFrom(st.water_temp_c,
                              (q_input - 2 * delta_t) * dt_seconds, 837000))
    IN  [ m EXCEPT !.state.status = status,
                   !.state.element_on = on,
                   !.state.power_kw = power,
                   !.state.heat_loss_rate_kw = Round(delta_t, 5),
                   !.state.water_temp_c = temp,
                   !.state.energy_stored_kwh =
                       Round(2325 * (temp - AMBIENT_C), 10000) ]

-----------------------------------------------------------------------------
(* WasherDryerModel, ml/device_models.py                                   *)
(*   phase durations and _cycle_elapsed_min in seconds; progress_pct 1/10 %*)
(*   time_remaining_min 1/10 minute; energy_this_cycle_kwh in W*s.         *)

CYCLE_PHASES ==
    << [ name |-> "washing",  duration |-> 900,  power |-> 500 ],
       [ name |-> "rinsing",  duration |-> 600,  power |-> 300 ],
       [ name |-> "spinning", duration |-> 600,  power |-> 800 ],
       [ name |-> "drying",   duration |-> 1800, power |-> 2000 ] >>

RECURSIVE PhaseEnd(_)
\* Cumulative duration of the first i phases.
PhaseEnd(i) == IF i = 0 THEN 0 ELSE PhaseEnd(i - 1) + CYCLE_PHASES[i].duration

TOTAL_CYCLE_MIN == PhaseEnd(Len(CYCLE_PHASES))

WasherState ==
    [ status |-> "off", power_kw |-> 0, cycle_phase |-> "idle",
      progress_pct |-> 0, time_remaining_min |-> 0,
      energy_this_cycle_kwh |-> 0 ]

WasherDryerModel(device_id, room_id, name) ==
    [ device_id |-> device_id, room_id |-> room_id, name |-> name,
      state |-> WasherState, cycle_elapsed_min |-> 0, running |-> FALSE ]

\* A slip: a start that keeps the energy of the previous cycle.
start_cycle_KeepsEnergy(m) ==
    [ m EXCEPT !.running = TRUE,
               !.cycle_elapsed_min = 0,
               !.state.status = "washing" ]

start_cycle(m) ==
    [ m EXCEPT !.running = TRUE,
               !.cycle_elapsed_min = 0,
               !.state.energy_this_cycle_kwh = 0,
               !.state.status = "washing" ]

\* The for loop over CYCLE_PHASES: the first phase whose end the elapsed
\* time has not passed, 0 when the loop runs to its else clause.
WDCurrentPhase(elapsed) ==
    LET open == { i \in 1..Len(CYCLE_PHASES) : elapsed <= PhaseEnd(i) }
    IN  IF open = {} THEN 0
        ELSE CHOOSE i \in open : \A j \in open : i <= j

\* A slip: completion that leaves progress_pct where the last phase left it.
WDStepRunning_ProgressLeft(m, dt_seconds) ==
    LET elapsed == m.cycle_elapsed_min + dt_seconds
        i == WDCurrentPhase(elapsed)
    IN  IF i = 0
        THEN [ m EXCEPT !.cycle_elapsed_min = elapsed,
                        !.running = FALSE,
                        !.state.status = "complete",
                        !.state.power_kw = 0,
                        !.state.cycle_phase = "complete",
                        !.state.time_remaining_min = 0 ]
        ELSE [ m EXCEPT !.cycle_elapsed_min = elapsed,
                        !.state.cycle_phase = CYCLE_PHASES[i].name,
                        !.state.status = CYCLE_PHASES[i].name,
                        !.state.power_kw = CYCLE_PHASES[i].power,
                        !.state.progress_pct =
                            Round(elapsed * 1000, TOTAL_CYCLE_MIN),
                        !.state.time_remaining_min =
                            Round((TOTAL_CYCLE_MIN - elapsed) * 10, 60),
                        !.state.energy_this_cycle_kwh =
                            @ + CYCLE_PHASES[i].power * dt_seconds ]

WDStepRunning(m, dt_seconds) ==
    LET elapsed == m.cycle_elapsed_min + dt_seconds
        i == WDCurrentPhase(elapsed)
    IN  IF i = 0
        THEN [ m EXCEPT !.cycle_elapsed_min = elapsed,
                        !.running = FALSE,
                        !.state.status = "complete",
                        !.state.power_kw = 0,
                        !.state.cycle_phase = "complete",
                        !.state.progress_pct = 1000,
                        !.state.time_remaining_min = 0 ]
        ELSE [ m EXCEPT !.cycle_elapsed_min = elapsed,
                        !.state.cycle_phase = CYCLE_PHASES[i].name,
                        !.state.status = CYCLE_PHASES[i].name,
                        !.state.power_kw = CYCLE_PHASES[i].power,
                        !.state.progress_pct =
                            Round(elapsed * 1000, TOTAL_CYCLE_MIN),
                        !.state.time_remaining_min =
                            Round((TOTAL_CYCLE_MIN - elapsed) * 10, 60),
                        !.state.energy_this_cycle_kwh =
                            @ + CYCLE_PHASES[i].power * dt_seconds ]

\* A slip: a start trigger that restarts a running cycle.
WasherDryerModel_step_Restart(m, dt_seconds, trigger_start) ==
    IF trigger_start THEN WDStepRunning(start_cycle(m), dt_seconds)
    ELSE IF m.running THEN WDStepRunning(m, dt_seconds)
    ELSE [ m EXCEPT !.state.status = "off",
                    !.state.power_kw = 0,
                    !.state.cycle_phase = "idle",
                    !.state.progress_pct = 0,
                    !.state.time_remaining_min = 0 ]

WasherDryerModel_step(m, dt_seconds, trigger_start) ==
    LET m1 == IF trigger_start /\ ~m.running THEN start_cycle(m) ELSE m
    IN  IF ~m1.running
        THEN [ m1 EXCEPT !.state.status = "off",
                         !.state.power_kw = 0,
                         !.state.cycle_phase = "idle",
                         !.state.progress_pct = 0,
                         !.state.time_remaining_min = 0 ]
        ELSE WDStepRunning(m1, dt_seconds)

-----------------------------------------------------------------------------
(* RoomThermalModel, ml/thermal_model.py                                   *)
(*   r_wall 1/10 K/kW; c_thermal 1/100 kWh/K; window_area_m2 1/10 m2;      *)
(*   shgc 1/100; occupants 1/10 person; heat flows inside step in          *)
(*   1/10000 kW, scaled by r_wall so that the wall term stays exact;       *)
(*   temp_trend_c_per_hour 1/100 C/h; minutes_to_setpoint 1/10 minute.     *)
(*   _prev_temp is written by step and read nowhere: it is left out.       *)

ROOM_PROPERTIES ==
    [ name \in {"Living Room", "Bedroom", "Kitchen", "Garage"} |->
        CASE name = "Living Room" ->
               [ r_wall |-> 45, c_thermal |-> 45, window_area_m2 |-> 60, shgc |-> 25 ]
          [] name = "Bedroom" ->
               [ r_wall |-> 50, c_thermal |-> 35, window_area_m2 |-> 30, shgc |-> 20 ]
          [] name = "Kitchen" ->
               [ r_wall |-> 40, c_thermal |-> 30, window_area_m2 |-> 20, shgc |-> 25 ]
          [] name = "Garage" ->
               [ r_wall |-> 25, c_thermal |-> 60, window_area_m2 |-> 5, shgc |-> 15 ] ]

DEFAULT_ROOM_PROPS ==
    [ r_wall |-> 40, c_thermal |-> 35, window_area_m2 |-> 30, shgc |-> 22 ]

RoomThermalState(room_id, room_name, initial_temp_c) ==
    [ room_id |-> room_id, room_name |-> room_name,
      current_temp_c |-> initial_temp_c, temp_trend_c_per_hour |-> 0,
      humidity_pct |-> 550, comfort_status |-> "comfortable",
      heat_gain_kw |-> 0, cooling_output_kw |-> 0, minutes_to_setpoint |-> 0 ]

RoomThermalModel(room_id, room_name, initial_temp_c) ==
    LET props == IF room_name \in DOMAIN ROOM_PROPERTIES
                 THEN ROOM_PROPERTIES[room_name] ELSE DEFAULT_ROOM_PROPS
    IN  [ room_id |-> room_id, room_name |-> room_name,
          r_wall |-> props.r_wall, c_thermal |-> props.c_thermal,
          window_area |-> props.window_area_m2, shgc |-> props.shgc,
          state |-> RoomThermalState(room_id, room_name, initial_temp_c) ]

\* floor and ceiling of n / d for d > 0.
Floor(n, d) == n \div d

Ceil(n, d) == -((-n) \div d)

\* A slip: the wall conducting from the room to the outside.
RoomHeatGain_WallReversed(m, outside_temp_c, solar_w_per_m2, n_occupants, device_heat_kw) ==
    (m.state.current_temp_c - outside_temp_c) * 1000
      + m.r_wall * ( (solar_w_per_m2 * m.window_area * m.shgc) \div 100
                     + n_occupants * 100
                     + device_heat_kw * 10 )

\* total_heat_gain = q_wall + q_solar + q_occupancy + q_devices,
\* in 1/(r_wall * 10000) kW.
RoomHeatGain(m, outside_temp_c, solar_w_per_m2, n_occupants, device_heat_kw) ==
    (outside_temp_c - m.state.current_temp_c) * 1000
      + m.r_wall * ( (solar_w_per_m2 * m.window_area * m.shgc) \div 100
                     + n_occupants * 100
                     + device_heat_kw * 10 )

\* A slip: the out_of_band check left out.
RoomComfort_NoOverride(lo, hi, comfort_min_c, comfort_max_c) ==
    IF comfort_min_c <= lo /\ hi <= comfort_max_c THEN "comfortable"
    ELSE IF lo < comfort_min_c THEN "cool"
    ELSE "warm"

\* The comfort classification of the unrounded new temperature, given its
\* floor lo and ceiling hi in 1/100 C.
RoomComfort(lo, hi, comfort_min_c, comfort_max_c) ==
    IF lo < comfort_min_c - 200 \/ hi > comfort_max_c + 200 THEN "out_of_band"
    ELSE IF comfort_min_c <= lo /\ hi <= comfort_max_c THEN "comfortable"
    ELSE IF lo < comfort_min_c THEN "cool"
    ELSE "warm"

\* max(30, min(80, base + 2 * occupants + ac_effect)), rounded to 0.1.
RoomHumidity(outside_temp_c, n_occupants, cooling_kw) ==
    Max(300, Min(800, (IF outside_temp_c > 3500 THEN 600 ELSE 500)
                        + n_occupants * 2
                        + (IF cooling_kw > 0 THEN -50 ELSE 0)))

\* minutes_to_setpoint: abs((new_temp - setpoint) / trend) * 60 while
\* cooling and trending down towards the middle of the comfort band.
\* net < 0 and dt > 0 here; k is r_wall * c_thermal * 3600.  The quotient
\* (a2 * k / 2 + net * dt) / (6 * -net), in 1/10 minute, is taken in two
\* divisions so that no intermediate product leaves 32 bits.
RoomMinutesToSetpoint(T, net, dt_seconds, k, comfort_min_c, comfort_max_c) ==
    LET a2 == 2 * T - (comfort_min_c + comfort_max_c)
        n == -net
        y == a2 * (k \div 3600)
        r1 == 300 * (y % n)
    IN  IF Ceil(2 * net * dt_seconds, k) > -a2
        THEN RoundFrom(300 * (y \div n) + (r1 \div n),
                       6 * (r1 % n) - dt_seconds * n, 6 * n)
        ELSE 0

\* A slip: the cooling output added to the heat gain.
RoomThermalModel_step_CoolingHeats(m, dt_seconds, outside_temp_c, solar_w_per_m2, n_occupants, device_heat_kw, cooling_kw, comfort_min_c, comfort_max_c) ==
    LET T == m.state.current_temp_c
        gain == RoomHeatGain(m, outside_temp_c, solar_w_per_m2, n_occupants,
                             device_heat_kw)
        net == gain + m.r_wall * cooling_kw * 10
        k == m.r_wall * m.c_thermal * 3600
        \* dT = net_heat * dt_hours / c_thermal = net * dt / k  [1/100 C]
        lo == T + Floor(net * dt_seconds, k)
        hi == T + Ceil(net * dt_seconds, k)
        trending_down == dt_seconds > 0 /\ net < 0
    IN  [ m EXCEPT
            !.state.current_temp_c = RoundFrom(T, net * dt_seconds, k),
            !.state.temp_trend_c_per_hour =
                IF dt_seconds > 0 THEN Round(net, m.r_wall * m.c_thermal) ELSE 0,
            !.state.heat_gain_kw = Round(gain, m.r_wall * 10),
            !.state.cooling_output_kw = cooling_kw,
            !.state.humidity_pct =
                RoomHumidity(outside_temp_c, n_occupants, cooling_kw),
            !.state.comfort_status =
                RoomComfort(lo, hi, comfort_min_c, comfort_max_c),
            !.state.minutes_to_setpoint =
                IF cooling_kw > 0 /\ trending_down
                THEN RoomMinutesToSetpoint(T, net, dt_seconds, k,
                                           comfort_min_c, comfort_max_c)
                ELSE 0 ]

RoomThermalModel_step(m, dt_seconds, outside_temp_c, solar_w_per_m2, n_occupants, device_heat_kw, cooling_kw, comfort_min_c, comfort_max_c) ==
    LET T == m.state.current_temp_c
        gain == RoomHeatGain(m, outside_temp_c, solar_w_per_m2, n_occupants,
                             device_heat_kw)
        net == gain - m.r_wall * cooling_kw * 10
        k == m.r_wall * m.c_thermal * 3600
        \* dT = net_heat * dt_hours / c_thermal = net * dt / k  [1/100 C]
        lo == T + Floor(net * dt_seconds, k)
        hi == T + Ceil(net * dt_seconds, k)
        trending_down == dt_seconds > 0 /\ net < 0
    IN  [ m EXCEPT
            !.state.current_temp_c = RoundFrom(T, net * dt_seconds, k),
            !.state.temp_trend_c_per_hour =
                IF dt_seconds > 0 THEN Round(net, m.r_wall * m.c_thermal) ELSE 0,
            !.state.heat_gain_kw = Round(gain, m.r_wall * 10),
            !.state.cooling_output_kw = cooling_kw,
            !.state.humidity_pct =
                RoomHumidity(outside_temp_c, n_occupants, cooling_kw),
            !.state.comfort_status =
                RoomComfort(lo, hi, comfort_min_c, comfort_max_c),
            !.state.minutes_to_setpoint =
                IF cooling_kw > 0 /\ trending_down
                THEN RoomMinutesToSetpoint(T, net, dt_seconds, k,
                                           comfort_min_c, comfort_max_c)
                ELSE 0 ]

\* 950 * sin(pi * (hour - 6) / 12.5) between 06:00 and 18:30, else 0, at the
\* times of day the model uses (minutes since 00:00 UTC); each value is
\* within 0.03 W/m2 of the sine.
SolarTable ==
    [ h \in {180, 871, 1028} |->
        CASE h = 180  -> 0
          [] h = 871  -> 800
          [] h = 1028 -> 320 ]

compute_solar_irradiance(hour_of_day) ==
    IF hour_of_day < 360 \/ hour_of_day > 1110 THEN 0
    ELSE Max(0, SolarTable[hour_of_day])

\* Occupants in 1/10 person.
compute_occupancy(hour_of_day, room_name) ==
    CASE room_name = "Bedroom" ->
           IF 1320 <= hour_of_day \/ hour_of_day < 420 THEN 20
           ELSE IF 420 <= hour_of_day /\ hour_of_day < 540 THEN 10
           ELSE 0
      [] room_name = "Living Room" ->
           IF 420 <= hour_of_day /\ hour_of_day < 540 THEN 20
           ELSE IF 540 <= hour_of_day /\ hour_of_day < 960 THEN 5
           ELSE IF 960 <= hour_of_day /\ hour_of_day < 1380 THEN 30
           ELSE 0
      [] room_name = "Kitchen" ->
           IF 360 <= hour_of_day /\ hour_of_day < 540 THEN 15
           ELSE IF 660 <= hour_of_day /\ hour_of_day < 840 THEN 15
           ELSE IF 1020 <= hour_of_day /\ hour_of_day < 1260 THEN 20
           ELSE 0
      [] room_name = "Garage" ->
           IF (420 <= hour_of_day /\ hour_of_day < 480)
              \/ (1020 <= hour_of_day /\ hour_of_day < 1080) THEN 10
           ELSE 0
      [] OTHER -> 5

-----------------------------------------------------------------------------
(* HomeTwinModel, ml/digital_twin.py                                       *)

\* temp_c = None and status = None in a telemetry reading.
NoTemp == -27315

NoStatus == "None"

EnvironmentState ==
    [ outside_temp_c |-> 3600, solar_irradiance_w_m2 |-> 500,
      wind_speed_ms |-> 20, humidity_pct |-> 550,
      grid_carbon_intensity |-> 45 ]

EnergyAccumulator ==
    [ total_energy_kwh |-> 0, cost_aed |-> 0, co2_kg |-> 0,
      peak_power_kw |-> 0, tariff |-> 38, emission_factor |-> 45 ]

\* EnergyAccumulator.accumulate: energy = power_kw * dt_hours, in
\* 1/10000 kWh that is power [W] * dt [s] / 360.
\* A slip: the peak overwritten by the latest power.
accumulate_PeakIsLatest(e, power_kw, dt_seconds) ==
    LET total == RoundFrom(e.total_energy_kwh, power_kw * dt_seconds, 360)
    IN  [ e EXCEPT !.total_energy_kwh = total,
                   !.cost_aed = Round(total * e.tariff, 10000),
                   !.co2_kg = Round(total * e.emission_factor, 10000),
                   !.peak_power_kw = power_kw ]

accumulate(e, power_kw, dt_seconds) ==
    LET total == RoundFrom(e.total_energy_kwh, power_kw * dt_seconds, 360)
    IN  [ e EXCEPT !.total_energy_kwh = total,
                   !.cost_aed = Round(total * e.tariff, 10000),
                   !.co2_kg = Round(total * e.emission_factor, 10000),
                   !.peak_power_kw = Max(e.peak_power_kw, power_kw) ]

\* The module-level _twin = None.
NoTwin == [ live |-> FALSE ]

\* HomeTwinModel.__init__ at clock reading t.
HomeTwinModel(home_name, t) ==
    [ live |-> TRUE, home_name |-> home_name,
      room_models |-> <<>>, device_models |-> <<>>,
      device_room_map |-> <<>>, device_type_map |-> <<>>,
      environment |-> EnvironmentState, energy |-> EnergyAccumulator,
      comfort_min_c |-> 2200, comfort_max_c |-> 2600,
      ev_target_soc |-> 8000, ev_departure_time |-> "07:30",
      step_count |-> 0, start_time |-> t, last_step_time |-> t ]

DeviceKinds == {"ac", "ev_charger", "water_heater", "washer_dryer"}

\* The model built for one seed device (the if/elif chain of from_seed_data).
SeedDeviceModel(dev, mid_comfort) ==
    CASE dev.type = "ac" ->
           [ ACModel(dev.id, dev.room_id, dev.name) EXCEPT
               !.state.setpoint_c = IF dev.setpoint = 0 THEN 2400 ELSE dev.setpoint,
               !.state.room_temp_c = mid_comfort,
               !.state.status = dev.status ]
      [] dev.type = "ev_charger" ->
           [ EVChargerModel(dev.id, dev.room_id, dev.name) EXCEPT
               !.state.soc_pct = 4500 ]
      [] dev.type = "water_heater" -> WaterHeaterModel(dev.id, dev.room_id, dev.name)
      [] dev.type = "washer_dryer" -> WasherDryerModel(dev.id, dev.room_id, dev.name)

\* rooms and devices are sequences of records (the lists of dicts); a
\* missing setpoint is 0, which `or 24.0` replaces like None.
from_seed_data(home_name, rooms, devices, preferences, outside_temp_c, t) ==
    LET mid_comfort == (preferences.comfort_min_c + preferences.comfort_max_c) \div 2
        room(rid) == CHOOSE i \in 1..Len(rooms) :
                        /\ rooms[i].id = rid
                        /\ \A j \in (i + 1)..Len(rooms) : rooms[j].id # rid
        dev(did) == CHOOSE i \in 1..Len(devices) :
                        /\ devices[i].id = did
                        /\ \A j \in (i + 1)..Len(devices) : devices[j].id # did
        initial_temp(rname) ==
            IF rname # "Garage" THEN mid_comfort
            ELSE Min(outside_temp_c, mid_comfort + 400)
        modelled == { i \in 1..Len(devices) : devices[i].type \in DeviceKinds }
    IN  [ HomeTwinModel(home_name, t) EXCEPT
            !.comfort_min_c = preferences.comfort_min_c,
            !.comfort_max_c = preferences.comfort_max_c,
            !.ev_target_soc = preferences.ev_target_soc,
            !.ev_departure_time = preferences.ev_departure_time,
            !.room_models =
                [ rid \in { rooms[i].id : i \in 1..Len(rooms) } |->
                    RoomThermalModel(rid, rooms[room(rid)].name,
                                     initial_temp(rooms[room(rid)].name)) ],
            !.device_room_map =
                [ did \in { devices[i].id : i \in 1..Len(devices) } |->
                    devices[dev(did)].room_id ],
            !.device_type_map =
                [ did \in { devices[i].id : i \in 1..Len(devices) } |->
                    devices[dev(did)].type ],
            !.device_models =
                [ did \in { devices[i].id : i \in modelled } |->
                    SeedDeviceModel(devices[dev(did)], mid_comfort) ],
            !.environment.outside_temp_c = outside_temp_c ]

RECURSIVE SumOver(_, _)
\* sum(f[x] for x in S)
SumOver(S, f) ==
    IF S = {} THEN 0
    ELSE LET x == CHOOSE y \in S : TRUE
         IN  f[x] + SumOver(S \ {x}, f)

get_device_power(tw, device_id) ==
    IF device_id \notin DOMAIN tw.device_models THEN 0
    ELSE tw.device_models[device_id].state.power_kw

\* sum(self._get_device_power(did) for did in self.device_models)
TotalPower(tw) ==
    SumOver(DOMAIN tw.device_models,
            [ did \in DOMAIN tw.device_models |-> get_device_power(tw, did) ])

\* status or model.state.status
StatusOr(status, model_status) ==
    IF status = NoStatus \/ status = "" THEN model_status ELSE status

\* _step_device for a climate unit: the room's current temperature goes in.
StepAC(tw, device_id, dt_seconds, status) ==
    LET model == tw.device_models[device_id]
        room_id == tw.device_room_map[device_id]
        room_temp == IF room_id \in DOMAIN tw.room_models
                     THEN tw.room_models[room_id].state.current_temp_c
                     ELSE 2500
    IN  ACModel_step(model, dt_seconds, room_temp,
                     tw.environment.outside_temp_c, model.state.setpoint_c,
                     StatusOr(status, model.state.status))

\* A slip: the status the model computed is left standing.
StepEV_NoOverride(tw, device_id, dt_seconds, power_kw, status) ==
    LET model == tw.device_models[device_id]
        plugged_in == StatusOr(status, model.state.status)
                          \in {"charging", "on", "standby"}
    IN  EVChargerModel_step(model, dt_seconds, plugged_in /\ power_kw > 10,
                            tw.ev_target_soc, tw.ev_departure_time)

\* _step_device for the charger: plugged in needs a plugged status and
\* power above 0.01 kW; a reading above 0.01 kW overrides the status.
StepEV(tw, device_id, dt_seconds, power_kw, status) ==
    LET model == tw.device_models[device_id]
        plugged_in == StatusOr(status, model.state.status)
                          \in {"charging", "on", "standby"}
        stepped == EVChargerModel_step(model, dt_seconds,
                                       plugged_in /\ power_kw > 10,
                                       tw.ev_target_soc, tw.ev_departure_time)
    IN  IF power_kw > 10 THEN [ stepped EXCEPT !.state.status = "charging" ]
        ELSE stepped

\* A slip: only the status starts a cycle.
StepWD_StatusOnly(tw, device_id, dt_seconds, power_kw, status) ==
    LET model == tw.device_models[device_id]
        trigger == status = "on" /\ ~model.running
    IN  WasherDryerModel_step(model, dt_seconds, trigger)

\* _step_device for the washer/dryer: the start trigger.
StepWD(tw, device_id, dt_seconds, power_kw, status) ==
    LET model == tw.device_models[device_id]
        trigger == (status = "on" \/ power_kw > 100) /\ ~model.running
    IN  WasherDryerModel_step(model, dt_seconds, trigger)

\* A slip: the devices that did not report are taken to draw nothing.
step_device_IdlesOthers(tw, device_id, dt_seconds, power_kw, status) ==
    IF device_id \notin DOMAIN tw.device_models
    THEN [ twin |-> tw,
           ret |-> [ device_id |-> device_id, error |-> "unknown device" ] ]
    ELSE LET dtype == tw.device_type_map[device_id]
             model ==
               CASE dtype = "ac" -> StepAC(tw, device_id, dt_seconds, status)
                 [] dtype = "ev_charger" ->
                      StepEV(tw, device_id, dt_seconds, power_kw, status)
                 [] dtype = "water_heater" ->
                      WaterHeaterModel_step(tw.device_models[device_id],
                                            dt_seconds, status)
                 [] dtype = "washer_dryer" ->
                      StepWD(tw, device_id, dt_seconds, power_kw, status)
         IN  [ twin |-> [ tw EXCEPT !.device_models =
                            [ d \in DOMAIN tw.device_models |->
                                IF d = device_id THEN model
                                ELSE [ tw.device_models[d] EXCEPT
                                         !.state.power_kw = 0 ] ] ],
               ret |-> [ device_id |-> device_id, type |-> dtype,
                         computed |-> model.state ] ]

\* _step_device: the twin with the device stepped, and the returned dict.
step_device(tw, device_id, dt_seconds, power_kw, status) ==
    IF device_id \notin DOMAIN tw.device_models
    THEN [ twin |-> tw,
           ret |-> [ device_id |-> device_id, error |-> "unknown device" ] ]
    ELSE LET dtype == tw.device_type_map[device_id]
             model ==
               CASE dtype = "ac" -> StepAC(tw, device_id, dt_seconds, status)
                 [] dtype = "ev_charger" ->
                      StepEV(tw, device_id, dt_seconds, power_kw, status)
                 [] dtype = "water_heater" ->
                      WaterHeaterModel_step(tw.device_models[device_id],
                                            dt_seconds, status)
                 [] dtype = "washer_dryer" ->
                      StepWD(tw, device_id, dt_seconds, power_kw, status)
         IN  [ twin |-> [ tw EXCEPT !.device_models[device_id] = model ],
               ret |-> [ device_id |-> device_id, type |-> dtype,
                         computed |-> model.state ] ]

\* Cooling delivered to a room by its climate units.
RoomCoolingKw(tw, room_id) ==
    LET acs == { did \in DOMAIN tw.device_models :
                    /\ tw.device_room_map[did] = room_id
                    /\ tw.device_type_map[did] = "ac" }
    IN  SumOver(acs, [ did \in acs |-> get_cooling_kw(tw.device_models[did]) ])

\* Waste heat of the room's heater (0.1 kW while the element is on) and
\* washer/dryer (15% of its draw), in W.
RoomDeviceHeatKw(tw, room_id) ==
    LET here == { did \in DOMAIN tw.device_models :
                    tw.device_room_map[did] = room_id }
        heat(did) ==
            LET dtype == tw.device_type_map[did]
                st == tw.device_models[did].state
            IN  IF dtype = "water_heater" /\ st.element_on THEN 100
                ELSE IF dtype = "washer_dryer" /\ st.power_kw > 0
                     THEN (st.power_kw * 15) \div 100
                ELSE 0
    IN  SumOver(here, [ did \in here |-> heat(did) ])

\* One pass of the loop of _step_all_rooms over the room models.
StepRooms(tw, dt_seconds, hour_of_day) ==
    [ tw EXCEPT !.room_models =
        [ room_id \in DOMAIN tw.room_models |->
            RoomThermalModel_step(
                tw.room_models[room_id], dt_seconds,
                tw.environment.outside_temp_c,
                tw.environment.solar_irradiance_w_m2,
                compute_occupancy(hour_of_day, tw.room_models[room_id].room_name),
                RoomDeviceHeatKw(tw, room_id),
                RoomCoolingKw(tw, room_id),
                tw.comfort_min_c, tw.comfort_max_c) ] ]

\* A slip: every room stepped twice in one ingest.
step_all_rooms_Twice(tw, dt_seconds, hour_of_day) ==
    StepRooms(StepRooms(tw, dt_seconds, hour_of_day), dt_seconds, hour_of_day)

\* _step_all_rooms
step_all_rooms(tw, dt_seconds, hour_of_day) ==
    StepRooms(tw, dt_seconds, hour_of_day)

\* A slip: the elapsed time without its 60 s cap.
DtSeconds_NoCap(tw, t) == t - tw.last_step_time

\* dt_seconds = min(now - self._last_step_time, 60.0)
DtSeconds(tw, t) == Min(t - tw.last_step_time, 60)

\* A slip: the last-step time left where the constructor put it.
IngestBegin_KeepsStepTime(tw, t) ==
    [ tw EXCEPT !.step_count = @ + 1 ]

\* ingest_telemetry, lines 199-202: the clock, the step counter.
IngestBegin(tw, t) ==
    [ tw EXCEPT !.last_step_time = t, !.step_count = @ + 1 ]

\* A slip: the reading of any known device taken as the outdoor temperature.
IngestEnvironment_AnyDevice(tw, device_id, temp_c, hour_of_day) ==
    LET outside ==
            IF temp_c # NoTemp /\ device_id \in DOMAIN tw.device_type_map
            THEN temp_c
            ELSE tw.environment.outside_temp_c
    IN  [ tw EXCEPT !.environment.outside_temp_c = outside,
                    !.environment.solar_irradiance_w_m2 =
                        compute_solar_irradiance(hour_of_day) ]

\* ingest_telemetry, lines 204-212: the environment.
IngestEnvironment(tw, device_id, temp_c, hour_of_day) ==
    LET outside ==
            IF /\ temp_c # NoTemp
               /\ device_id \in DOMAIN tw.device_type_map
               /\ tw.device_type_map[device_id] = "ac"
            THEN temp_c
            ELSE tw.environment.outside_temp_c
    IN  [ tw EXCEPT !.environment.outside_temp_c = outside,
                    !.environment.solar_irradiance_w_m2 =
                        compute_solar_irradiance(hour_of_day) ]

\* A slip: every ingest metered as a full minute.
IngestEnergy_FullMinute(tw, dt_seconds) ==
    [ tw EXCEPT !.energy = accumulate(tw.energy, TotalPower(tw), 60) ]

\* ingest_telemetry, lines 220-222: the energy accumulator.
IngestEnergy(tw, dt_seconds) ==
    [ tw EXCEPT !.energy = accumulate(tw.energy, TotalPower(tw), dt_seconds) ]

\* A slip: the rooms stepped before the device.
ingest_telemetry_RoomsFirst(tw, device_id, power_kw, temp_c, status, t, hour_of_day) ==
    LET dt_seconds == DtSeconds(tw, t)
        t1 == IngestEnvironment(IngestBegin(tw, t), device_id, temp_c, hour_of_day)
        t2 == step_all_rooms(t1, dt_seconds, hour_of_day)
        dev == step_device(t2, device_id, dt_seconds, power_kw, status)
    IN  [ twin |-> IngestEnergy(dev.twin, dt_seconds), ret |-> dev.ret ]

\* ingest_telemetry at clock reading t and time of day hour_of_day: the twin
\* after the call and the dict it returns.
ingest_telemetry(tw, device_id, power_kw, temp_c, status, t, hour_of_day) ==
    LET dt_seconds == DtSeconds(tw, t)
        t1 == IngestEnvironment(IngestBegin(tw, t), device_id, temp_c, hour_of_day)
        dev == step_device(t1, device_id, dt_seconds, power_kw, status)
        t2 == step_all_rooms(dev.twin, dt_seconds, hour_of_day)
    IN  [ twin |-> IngestEnergy(t2, dt_seconds), ret |-> dev.ret ]

\* A slip: every room counted in the comfort summary.
get_state_AllRooms(tw, t) ==
    LET with_ac == DOMAIN tw.room_models
        ok == { rid \in with_ac :
                  tw.room_models[rid].state.comfort_status
                      \in {"comfortable", "cool"} }
    IN  [ timestamp |-> t,
          home_name |-> tw.home_name,
          environment |->
              [ outside_temp_c |-> tw.environment.outside_temp_c,
                solar_irradiance_w_m2 |-> tw.environment.solar_irradiance_w_m2,
                humidity_pct |-> tw.environment.humidity_pct,
                grid_carbon_intensity |-> tw.environment.grid_carbon_intensity ],
          rooms |-> [ rid \in DOMAIN tw.room_models |-> tw.room_models[rid].state ],
          devices |->
              [ did \in DOMAIN tw.device_models |->
                  [ device_id |-> did,
                    room_id |-> tw.device_room_map[did],
                    type |-> tw.device_type_map[did],
                    name |-> tw.device_models[did].name ]
                  @@ tw.device_models[did].state ],
          energy |->
              [ current_power_kw |-> TotalPower(tw),
                total_energy_kwh |-> tw.energy.total_energy_kwh,
                cost_aed |-> tw.energy.cost_aed,
                co2_kg |-> tw.energy.co2_kg,
                peak_power_kw |-> tw.energy.peak_power_kw ],
          comfort_summary |->
              [ compliance_pct |->
                    IF Cardinality(with_ac) > 0
                    THEN Round(Cardinality(ok) * 1000, Cardinality(with_ac))
                    ELSE 1000,
                comfort_band |-> << tw.comfort_min_c, tw.comfort_max_c >>,
                rooms_comfortable |-> Cardinality(ok),
                rooms_total |-> Cardinality(with_ac) ],
          twin_step_count |-> tw.step_count,
          twin_uptime_seconds |-> t - tw.start_time ]

\* get_state at clock reading t: the TwinSnapshot, asdict.  The timestamp is
\* the clock reading; comfort_band is the pair of bounds.
get_state(tw, t) ==
    LET with_ac == { rid \in DOMAIN tw.room_models :
                       \E did \in DOMAIN tw.device_room_map :
                          /\ tw.device_room_map[did] = rid
                          /\ tw.device_type_map[did] = "ac" }
        ok == { rid \in with_ac :
                  tw.room_models[rid].state.comfort_status
                      \in {"comfortable", "cool"} }
    IN  [ timestamp |-> t,
          home_name |-> tw.home_name,
          environment |->
              [ outside_temp_c |-> tw.environment.outside_temp_c,
                solar_irradiance_w_m2 |-> tw.environment.solar_irradiance_w_m2,
                humidity_pct |-> tw.environment.humidity_pct,
                grid_carbon_intensity |-> tw.environment.grid_carbon_intensity ],
          rooms |-> [ rid \in DOMAIN tw.room_models |-> tw.room_models[rid].state ],
          devices |->
              [ did \in DOMAIN tw.device_models |->
                  [ device_id |-> did,
                    room_id |-> tw.device_room_map[did],
                    type |-> tw.device_type_map[did],
                    name |-> tw.device_models[did].name ]
                  @@ tw.device_models[did].state ],
          energy |->
              [ current_power_kw |-> TotalPower(tw),
                total_energy_kwh |-> tw.energy.total_energy_kwh,
                cost_aed |-> tw.energy.cost_aed,
                co2_kg |-> tw.energy.co2_kg,
                peak_power_kw |-> tw.energy.peak_power_kw ],
          comfort_summary |->
              [ compliance_pct |->
                    IF Cardinality(with_ac) > 0
                    THEN Round(Cardinality(ok) * 1000, Cardinality(with_ac))
                    ELSE 1000,
                comfort_band |-> << tw.comfort_min_c, tw.comfort_max_c >>,
                rooms_comfortable |-> Cardinality(ok),
                rooms_total |-> Cardinality(with_ac) ],
          twin_step_count |-> tw.step_count,
          twin_uptime_seconds |-> t - tw.start_time ]

-----------------------------------------------------------------------------
(* backend/twin_engine.py: the module-level twin and its entry points      *)

\* The rows scripts/seed.py writes: rooms, devices (a missing setpoint is 0)
\* and the preference row.
SeedRooms ==
    << [ id |-> 1, name |-> "Living Room" ], [ id |-> 2, name |-> "Bedroom" ],
       [ id |-> 3, name |-> "Kitchen" ], [ id |-> 4, name |-> "Garage" ] >>

SeedDevices ==
    << [ id |-> 1, room_id |-> 1, type |-> "ac", name |-> "AC (Living Room)",
         status |-> "on", setpoint |-> 2400 ],
       [ id |-> 2, room_id |-> 2, type |-> "ac", name |-> "AC (Bedroom)",
         status |-> "on", setpoint |-> 2300 ],
       [ id |-> 3, room_id |-> 3, type |-> "water_heater", name |-> "Water Heater",
         status |-> "on", setpoint |-> 0 ],
       [ id |-> 4, room_id |-> 3, type |-> "washer_dryer", name |-> "Washer Dryer",
         status |-> "off", setpoint |-> 0 ],
       [ id |-> 5, room_id |-> 4, type |-> "ev_charger", name |-> "EV Charger",
         status |-> "standby", setpoint |-> 0 ] >>

SeedPreferences ==
    [ comfort_min_c |-> 2200, comfort_max_c |-> 2600,
      ev_target_soc |-> 8000, ev_departure_time |-> "07:30" ]

\* The database as initialize_twin reads it: before and after the seed.
EmptyDb == [ home |-> "None", rooms |-> <<>>, devices |-> <<>>,
             pref |-> SeedPreferences ]

SeededDb == [ home |-> "Villa A", rooms |-> SeedRooms, devices |-> SeedDevices,
              pref |-> SeedPreferences ]

\* A slip: without a home row the module-level twin is cleared.
initialize_twin_ClearsTwin(tw, db_session, t) ==
    IF db_session.home = "None"
    THEN [ twin |-> NoTwin, raised |-> FALSE, ret |-> [ twin |-> FALSE ] ]
    ELSE [ twin |-> from_seed_data(db_session.home, db_session.rooms,
                                   db_session.devices, db_session.pref, 3600, t),
           raised |-> FALSE, ret |-> [ twin |-> TRUE ] ]

\* initialize_twin: without a home row the module-level twin is left as it
\* is and None is returned; otherwise it is replaced by a fresh twin.
initialize_twin(tw, db_session, t) ==
    IF db_session.home = "None"
    THEN [ twin |-> tw, raised |-> FALSE, ret |-> [ twin |-> FALSE ] ]
    ELSE [ twin |-> from_seed_data(db_session.home, db_session.rooms,
                                   db_session.devices, db_session.pref, 3600, t),
           raised |-> FALSE, ret |-> [ twin |-> TRUE ] ]

\* get_twin raising RuntimeError when no twin is set.
NotInitialized(tw) ==
    [ twin |-> tw, raised |-> TRUE, ret |-> [ error |-> "Twin not initialized" ] ]

\* A call that returned: the twin it leaves and the value returned.
Returned(r) == [ twin |-> r.twin, raised |-> FALSE, ret |-> r.ret ]

twin_ingest(tw, device_id, power_kw, temp_c, status, t, hour_of_day) ==
    IF ~tw.live THEN NotInitialized(tw)
    ELSE Returned(ingest_telemetry(tw, device_id, power_kw, temp_c, status,
                                   t, hour_of_day))

twin_state(tw, t) ==
    IF ~tw.live THEN NotInitialized(tw)
    ELSE [ twin |-> tw, raised |-> FALSE, ret |-> get_state(tw, t) ]

\* A slip: the rooms' comfort_status re-derived from the new band.
twin_update_preferences_Reclassify(tw, comfort_min_c, comfort_max_c, ev_target_soc, ev_departure_time) ==
    IF ~tw.live THEN NotInitialized(tw)
    ELSE [ twin |-> [ tw EXCEPT !.comfort_min_c = comfort_min_c,
                                !.comfort_max_c = comfort_max_c,
                                !.ev_target_soc = ev_target_soc,
                                !.ev_departure_time = ev_departure_time,
                                !.room_models =
                                    [ rid \in DOMAIN tw.room_models |->
                                        [ tw.room_models[rid] EXCEPT !.state.comfort_status =
                                            RoomComfort(tw.room_models[rid].state.current_temp_c,
                                                        tw.room_models[rid].state.current_temp_c,
                                                        comfort_min_c, comfort_max_c) ] ] ],
           raised |-> FALSE, ret |-> [ ok |-> TRUE ] ]

twin_update_preferences(tw, comfort_min_c, comfort_max_c, ev_target_soc, ev_departure_time) ==
    IF ~tw.live THEN NotInitialized(tw)
    ELSE [ twin |-> [ tw EXCEPT !.comfort_min_c = comfort_min_c,
                                !.comfort_max_c = comfort_max_c,
                                !.ev_target_soc = ev_target_soc,
                                !.ev_departure_time = ev_departure_time ],
           raised |-> FALSE, ret |-> [ ok |-> TRUE ] ]

-----------------------------------------------------------------------------
(* The twin driven through its entry points                                *)

\* Most telemetry readings ingested after initialisation.
MaxSteps == 2

\* The seeded device ids and one id the twin has no model for.
UnknownDevice == 99

DeviceIdSet == {1, 2, 3, 4, 5, UnknownDevice}

\* Telemetry readings (power_kw in W, temp_c, status): a unit reporting on
\* with an outdoor temperature, a unit reporting off, and a bare power
\* reading.
TelemetrySet ==
    { [ power_kw |-> 2500, temp_c |-> 3800, status |-> "on" ],
      [ power_kw |-> 0, temp_c |-> NoTemp, status |-> "off" ],
      [ power_kw |-> 1500, temp_c |-> NoTemp, status |-> NoStatus ] }

\* Seconds by which time.time() has moved since the previous reading of
\* it; a wall clock can be set back.
ClockAdvance == {-30, 0, 30, 90}

\* Time of day of the run, minutes since 00:00 UTC: 14:31, in daylight.
HourSet == {871}

NoResult == [ op |-> "none", raised |-> FALSE, ret |-> [ ok |-> TRUE ] ]

\* The outcome r of the engine call op, as the step records it.
CallResult(op, r) == [ op |-> op, raised |-> r.raised, ret |-> r.ret ]

\* The engine call op with outcome r takes effect.
EngineEffect(op, r) ==
    /\ twin' = r.twin
    /\ result' = CallResult(op, r)

\* No request handled by the latest step.
NoResp == [ route |-> "none", code |-> 0, escaped |-> FALSE,
            body |-> [ ok |-> TRUE ] ]

Idle == [ pc |-> "idle" ]

NoInput == [ unit |-> "none" ]

NoSnap == [ taken |-> FALSE ]

\* The stand-alone models as their constructors leave them.
UnitsInit ==
    /\ evm = EVChargerModel(5, 4, "EV Charger")
    /\ whm = WaterHeaterModel(3, 3, "Water Heater")
    /\ wdm = WasherDryerModel(4, 3, "Washer Dryer")
    /\ rtm = RoomThermalModel(1, "Living Room", 2400)
    /\ unit_steps = 0
    /\ unit_in = NoInput

Init ==
    /\ twin = NoTwin
    /\ hour \in HourSet
    /\ now = 0
    /\ result = NoResult
    /\ db = EmptyDb
    /\ resp = NoResp
    /\ thread = Idle
    /\ snap = NoSnap
    /\ acm = ACModel(1, 1, "AC")
    /\ ac_steps = 0
    /\ autopilot_state = << >>
    /\ UnitsInit

\* scripts/seed.py run on the empty database.
Seed ==
    /\ db = EmptyDb
    /\ db' = SeededDb
    /\ result' = NoResult
    /\ resp' = NoResp
    /\ UNCHANGED <<autopilot_state, twin, hour, now, acVars, unitVars, concVars>>

\* Backend startup: initialize_twin on the database as it is.
InitializeTwin ==
    /\ ~twin.live
    /\ EngineEffect("initialize_twin", initialize_twin(twin, db, now))
    /\ resp' = NoResp
    /\ UNCHANGED <<autopilot_state, hour, now, db, acVars, unitVars, concVars>>

\* twin_ingest with one reading; the clock has moved by adv since it was
\* last read (get_twin raises before the clock is read).
TwinIngest ==
    /\ twin.live => twin.step_count < MaxSteps
    /\ \E device_id \in DeviceIdSet, tm \in TelemetrySet, adv \in ClockAdvance :
          /\ EngineEffect("twin_ingest",
                          twin_ingest(twin, device_id, tm.power_kw, tm.temp_c,
                                      tm.status, now + adv, hour))
          /\ now' = IF twin.live THEN now + adv ELSE now
    /\ resp' = NoResp
    /\ UNCHANGED <<autopilot_state, hour, db, acVars, unitVars, concVars>>

Next == Seed \/ InitializeTwin \/ TwinIngest

Spec == Init /\ [][Next]_vars

-----------------------------------------------------------------------------
(* backend/routes.py: the routes in front of the twin                      *)

\* A response: the route, the status code, whether an exception left the
\* handler unhandled, and the body.
Response(route, code, body) ==
    [ route |-> route, code |-> code, escaped |-> FALSE, body |-> body ]

\* An exception no handler of the route catches.
Unhandled(route) ==
    [ route |-> route, code |-> 500, escaped |-> TRUE,
      body |-> [ detail |-> "Internal Server Error" ] ]

\* twin_step: None in the /twin/update response.
NoPower == -1

get_twin(tw) ==
    IF ~tw.live THEN NotInitialized(tw)
    ELSE [ twin |-> tw, raised |-> FALSE, ret |-> [ ok |-> TRUE ] ]

\* What a route hands back: the twin and database it leaves, the outcome r
\* of its engine call op, and the response.
Handled(op, r, db_session, response) ==
    [ twin |-> r.twin, db |-> db_session, result |-> CallResult(op, r),
      resp |-> response ]

\* GET /health: except RuntimeError -> twin_active false.
HealthBody(r) ==
    IF r.raised THEN [ status |-> "ok", twin_active |-> FALSE ]
    ELSE [ status |-> "ok", twin_active |-> TRUE,
           twin_steps |-> r.twin.step_count ]

HealthHandled(r, db_session) ==
    Handled("get_twin", r, db_session, Response("health", 200, HealthBody(r)))

health(tw, db_session) == HealthHandled(get_twin(tw), db_session)

\* A slip: GET /twin/state without its except RuntimeError.
TwinStateResponse_NoCatch(r) ==
    IF r.raised THEN Unhandled("get_twin_state")
    ELSE Response("get_twin_state", 200, r.ret)

\* GET /twin/state: except RuntimeError -> 503.
TwinStateResponse(r) ==
    IF r.raised
    THEN Response("get_twin_state", 503, [ detail |-> "Twin model not initialized" ])
    ELSE Response("get_twin_state", 200, r.ret)

TwinStateHandled(r, db_session) ==
    Handled("twin_state", r, db_session, TwinStateResponse(r))

get_twin_state(tw, db_session, t) == TwinStateHandled(twin_state(tw, t), db_session)

\* db.query(Device).filter(Device.id == device_id).first()
DeviceRows(db_session, device_id) ==
    { i \in 1..Len(db_session.devices) : db_session.devices[i].id = device_id }

\* The response of POST /twin/update given the outcome r of twin_ingest
\* (computed = {} if it raised) and full_state of twin_state (ignored if it
\* raised): twin_step, and the room temperature put in the broadcast.
TwinUpdateResponse(r, full_state, room_id) ==
    Response("twin_update", 200,
      [ ok |-> TRUE,
        twin_step |->
          IF ~r.raised /\ "computed" \in DOMAIN r.ret
          THEN r.ret.computed.power_kw ELSE NoPower,
        broadcast_room_temp_c |->
          IF ~full_state.raised /\ room_id \in DOMAIN full_state.ret.rooms
          THEN full_state.ret.rooms[room_id].current_temp_c
          ELSE NoTemp ])

\* POST /twin/update after the device row i was found and updated.
TwinUpdateFeed(db_session, i, status, r, t) ==
    Handled("twin_ingest", r,
            [ db_session EXCEPT !.devices[i].status = status ],
            TwinUpdateResponse(r, twin_state(r.twin, t),
                               db_session.devices[i].room_id))

\* POST /twin/update with body (device_id, power_kw, temp_c, status) at
\* clock reading t: 404 for a device the database does not have; otherwise
\* the device row is updated, the reading is fed to the twin and the room's
\* computed state is broadcast, a missing twin being tolerated at both calls.
twin_update(tw, db_session, body, t, hour_of_day) ==
    IF DeviceRows(db_session, body.device_id) = {}
    THEN [ twin |-> tw, db |-> db_session, result |-> NoResult,
           resp |-> Response("twin_update", 404, [ detail |-> "Device not found" ]) ]
    ELSE LET i == CHOOSE j \in DeviceRows(db_session, body.device_id) : TRUE
             status == StatusOr(body.status, db_session.devices[i].status)
         IN  TwinUpdateFeed(db_session, i, status,
                            twin_ingest(tw, body.device_id, body.power_kw,
                                        body.temp_c, status, t, hour_of_day),
                            t)

\* PUT /preferences: the row is written, then the live twin is updated if
\* there is one (except RuntimeError: pass).
update_preferences(tw, db_session, body) ==
    Handled("twin_update_preferences",
            twin_update_preferences(tw, body.comfort_min_c, body.comfort_max_c,
                                    body.ev_target_soc, body.ev_departure_time),
            [ db_session EXCEPT !.pref = body ],
            Response("update_preferences", 200, body))

\* The route's outcome r takes effect.
RouteEffect(r) ==
    /\ twin' = r.twin
    /\ db' = r.db
    /\ result' = r.result
    /\ resp' = r.resp

\* Most telemetry readings accepted by the twin through POST /twin/update.
MaxHttpSteps == 1

\* Devices named in POST /twin/update: a climate unit, the charger, and an
\* id with no row.
HttpDeviceIdSet == {1, 5, UnknownDevice}

\* Bodies of PUT /preferences.
PreferenceSet ==
    { SeedPreferences,
      [ comfort_min_c |-> 2300, comfort_max_c |-> 2500,
        ev_target_soc |-> 6000, ev_departure_time |-> "08:00" ] }

HttpHealth ==
    /\ RouteEffect(health(twin, db))
    /\ UNCHANGED <<autopilot_state, hour, now, acVars, unitVars, concVars>>

HttpGetTwinState ==
    /\ RouteEffect(get_twin_state(twin, db, now))
    /\ UNCHANGED <<autopilot_state, hour, now, acVars, unitVars, concVars>>

HttpTwinUpdate ==
    /\ twin.live => twin.step_count < MaxHttpSteps
    /\ \E device_id \in HttpDeviceIdSet, tm \in TelemetrySet, adv \in ClockAdvance :
          /\ RouteEffect(twin_update(twin, db,
                                     [ device_id |-> device_id,
                                       power_kw |-> tm.power_kw,
                                       temp_c |-> tm.temp_c,
                                       status |-> tm.status ],
                                     now + adv, hour))
          /\ now' = IF twin.live /\ DeviceRows(db, device_id) # {}
                    THEN now + adv ELSE now
    /\ UNCHANGED <<autopilot_state, hour, acVars, unitVars, concVars>>

HttpUpdatePreferences ==
    /\ \E body \in PreferenceSet : RouteEffect(update_preferences(twin, db, body))
    /\ UNCHANGED <<autopilot_state, hour, now, acVars, unitVars, concVars>>

HttpNext ==
    \/ Seed
    \/ InitializeTwin
    \/ HttpHealth
    \/ HttpGetTwinState
    \/ HttpTwinUpdate
    \/ HttpUpdatePreferences

SpecHttp == Init /\ [][HttpNext]_vars

-----------------------------------------------------------------------------
(* A telemetry POST racing the pollers.  POST /twin/update is an async def *)
(* and runs ingest_telemetry on the event loop; GET /twin/state and        *)
(* PUT /preferences are plain defs and run on worker threads.  Nothing     *)
(* locks the twin, so a worker can run between any two statements of       *)
(* ingest_telemetry; the ingest is cut at its five blocks.                 *)

\* Most ingests run while pollers are active.
MaxConcSteps == 1

\* ingest_telemetry entered with one reading at clock reading t: lines
\* 199-202 have run; the locals and the twin as it was on entry are kept.
Entered(tw, device_id, tm, t) ==
    [ pc |-> "environment", device_id |-> device_id, power_kw |-> tm.power_kw,
      temp_c |-> tm.temp_c, status |-> tm.status,
      dt_seconds |-> DtSeconds(tw, t), pre |-> tw, ret |-> [ ok |-> TRUE ] ]

ConcIngestBegin ==
    /\ thread.pc = "idle" /\ twin.live /\ twin.step_count < MaxConcSteps
    /\ \E device_id \in DeviceIdSet, tm \in TelemetrySet, adv \in ClockAdvance :
          /\ thread' = Entered(twin, device_id, tm, now + adv)
          /\ twin' = IngestBegin(twin, now + adv)
          /\ now' = now + adv
    /\ snap' = NoSnap
    /\ result' = NoResult
    /\ resp' = NoResp
    /\ UNCHANGED <<autopilot_state, hour, db, acVars, unitVars>>

ConcIngestEnvironment ==
    /\ thread.pc = "environment"
    /\ twin' = IngestEnvironment(twin, thread.device_id, thread.temp_c, hour)
    /\ thread' = [ thread EXCEPT !.pc = "device" ]
    /\ UNCHANGED <<autopilot_state, hour, now, result, db, resp, snap, acVars, unitVars>>

\* The device step r takes effect; its dict is kept for the return.
DeviceEffect(r) ==
    /\ twin' = r.twin
    /\ thread' = [ thread EXCEPT !.pc = "rooms", !.ret = r.ret ]

ConcStepDevice ==
    /\ thread.pc = "device"
    /\ DeviceEffect(step_device(twin, thread.device_id, thread.dt_seconds,
                                thread.power_kw, thread.status))
    /\ UNCHANGED <<autopilot_state, hour, now, result, db, resp, snap, acVars, unitVars>>

ConcStepAllRooms ==
    /\ thread.pc = "rooms"
    /\ twin' = step_all_rooms(twin, thread.dt_seconds, hour)
    /\ thread' = [ thread EXCEPT !.pc = "energy" ]
    /\ UNCHANGED <<autopilot_state, hour, now, result, db, resp, snap, acVars, unitVars>>

\* The energy is accumulated and ingest_telemetry returns.
ConcIngestEnergy ==
    /\ thread.pc = "energy"
    /\ twin' = IngestEnergy(twin, thread.dt_seconds)
    /\ result' = [ op |-> "twin_ingest", raised |-> FALSE, ret |-> thread.ret ]
    /\ thread' = Idle
    /\ snap' = NoSnap
    /\ UNCHANGED <<autopilot_state, hour, now, db, resp, acVars, unitVars>>

\* A worker thread runs get_state on the twin as it is.
ConcSnapshot ==
    /\ twin.live
    /\ snap' = [ taken |-> TRUE, state |-> get_state(twin, now) ]
    /\ UNCHANGED <<autopilot_state, twin, hour, now, result, db, resp, thread, acVars, unitVars>>

\* The twin tw with the preferences of body.
WithPreferences(tw, body) ==
    twin_update_preferences(tw, body.comfort_min_c, body.comfort_max_c,
                            body.ev_target_soc, body.ev_departure_time).twin

\* A worker thread runs twin_update_preferences; an ingest in progress
\* then counts as entered with these preferences.
ConcUpdatePreferences ==
    /\ twin.live
    /\ \E body \in PreferenceSet :
          /\ WithPreferences(twin, body) # twin
          /\ twin' = WithPreferences(twin, body)
          /\ thread' = IF thread.pc = "idle" THEN thread
                       ELSE [ thread EXCEPT !.pre = WithPreferences(@, body) ]
    /\ snap' = NoSnap
    /\ UNCHANGED <<autopilot_state, hour, now, result, db, resp, acVars, unitVars>>

ConcNext ==
    \/ Seed
    \/ InitializeTwin
    \/ ConcIngestBegin
    \/ ConcIngestEnvironment
    \/ ConcStepDevice
    \/ ConcStepAllRooms
    \/ ConcIngestEnergy
    \/ ConcSnapshot
    \/ ConcUpdatePreferences

SpecConc == Init /\ [][ConcNext]_vars

-----------------------------------------------------------------------------
(* The climate unit on its own: ACModel.step under arbitrary inputs        *)

MaxACSteps == 3

ACDtSet == {0, 45, 60}

ACRoomTempSet == {2350, 2400, 2437, 2600, 2800}

ACOutsideSet == {3000, 3500, 3620, 7000}

ACSetpointSet == {2200, 2400}

ACStatusSet == {"on", "off", "standby"}

ACInit ==
    /\ acm = ACModel(1, 1, "AC")
    /\ ac_steps = 0
    /\ autopilot_state = << >>
    /\ UnitsInit
    /\ twin = NoTwin
    /\ hour = 0
    /\ now = 0
    /\ result = NoResult
    /\ db = EmptyDb
    /\ resp = NoResp
    /\ thread = Idle
    /\ snap = NoSnap

ACStepAction ==
    /\ ac_steps < MaxACSteps
    /\ \E dt \in ACDtSet, rt \in ACRoomTempSet, ot \in ACOutsideSet,
          sp \in ACSetpointSet, st \in ACStatusSet :
          acm' = ACModel_step(acm, dt, rt, ot, sp, st)
    /\ ac_steps' = ac_steps + 1
    /\ UNCHANGED <<autopilot_state, twinVars, db, resp, concVars, unitVars>>

ACNext == ACStepAction

SpecAC == ACInit /\ [][ACNext]_vars

-----------------------------------------------------------------------------
(* The charger on its own: EVChargerModel.step under arbitrary inputs      *)

MaxEVSteps == 13

\* dt_seconds is an elapsed time: none, a minute, an hour.
EVDtSet == {0, 60, 3600}

EVTargetSet == {5000, 8000, 10000}

EVInput(dt, plugged_in, target_soc) ==
    [ unit |-> "ev", dt_seconds |-> dt, plugged_in |-> plugged_in,
      target_soc |-> target_soc ]

EVStepAction ==
    /\ unit_steps < MaxEVSteps
    /\ \E dt \in EVDtSet, plugged_in \in BOOLEAN, target_soc \in EVTargetSet :
          /\ evm' = EVChargerModel_step(evm, dt, plugged_in, target_soc, "07:30")
          /\ unit_in' = EVInput(dt, plugged_in, target_soc)
    /\ unit_steps' = unit_steps + 1
    /\ UNCHANGED <<autopilot_state, acVars, twinVars, db, resp, concVars, whm, wdm, rtm>>

EVNext == EVStepAction

SpecEV == ACInit /\ [][EVNext]_vars

-----------------------------------------------------------------------------
(* The tank heater on its own: WaterHeaterModel.step with steps of at most *)
(* a minute.  The tank temperature is bounded, so no step bound is needed. *)

HeaterDtSet == {1, 30, 60}

\* status_override: None, "on" as the simulator sends it, or "off".
HeaterOverrideSet == {NoStatus, "on", "off"}

HeaterInput(dt, status_override) ==
    [ unit |-> "heater", dt_seconds |-> dt, status_override |-> status_override ]

HeaterStepAction ==
    /\ \E dt \in HeaterDtSet, status_override \in HeaterOverrideSet :
          /\ whm' = WaterHeaterModel_step(whm, dt, status_override)
          /\ unit_in' = HeaterInput(dt, status_override)
    /\ UNCHANGED <<autopilot_state, acVars, twinVars, db, resp, concVars, evm, wdm, rtm, unit_steps>>

HeaterNext == HeaterStepAction

SpecHeater == ACInit /\ [][HeaterNext]_vars

-----------------------------------------------------------------------------
(* The appliance on its own: WasherDryerModel.step with steps of at most a *)
(* minute.  The elapsed time of a cycle is bounded by its length, so no    *)
(* step bound is needed.                                                   *)

WasherDtSet == {0, 30, 60}

WasherInput(dt, trigger_start) ==
    [ unit |-> "washer", dt_seconds |-> dt, trigger_start |-> trigger_start ]

WasherStepAction ==
    /\ \E dt \in WasherDtSet, trigger_start \in BOOLEAN :
          /\ wdm' = WasherDryerModel_step(wdm, dt, trigger_start)
          /\ unit_in' = WasherInput(dt, trigger_start)
    /\ UNCHANGED <<autopilot_state, acVars, twinVars, db, resp, concVars, evm, whm, rtm, unit_steps>>

WasherNext == WasherStepAction

SpecWasher == ACInit /\ [][WasherNext]_vars

-----------------------------------------------------------------------------
(* A room on its own: RoomThermalModel.step under arbitrary inputs, with   *)
(* the default comfort band.                                               *)

MaxRoomSteps == 2

RoomDtSet == {0, 60}

RoomOutsideSet == {2000, 3300, 3600}

RoomSolarSet == {0, 800}

RoomOccupantSet == {0, 20}

\* Cooling delivered to the room, W: none, one watt more than the wall gain
\* at 24 C inside and 33 C outside, a large unit.
RoomCoolingSet == {0, 2001, 5000}

RoomInput(dt, outside_temp_c, solar_w_per_m2, n_occupants, cooling_kw) ==
    [ unit |-> "room", dt_seconds |-> dt, outside_temp_c |-> outside_temp_c,
      solar_w_per_m2 |-> solar_w_per_m2, n_occupants |-> n_occupants,
      device_heat_kw |-> 0, cooling_kw |-> cooling_kw ]

\* The room m stepped with the arguments in.
RoomStepWith(m, in) ==
    RoomThermalModel_step(m, in.dt_seconds, in.outside_temp_c,
                          in.solar_w_per_m2, in.n_occupants, in.device_heat_kw,
                          in.cooling_kw, 2200, 2600)

RoomStepAction ==
    /\ unit_steps < MaxRoomSteps
    /\ \E dt \in RoomDtSet, outside_temp_c \in RoomOutsideSet,
          solar_w_per_m2 \in RoomSolarSet, n_occupants \in RoomOccupantSet,
          cooling_kw \in RoomCoolingSet :
          unit_in' = RoomInput(dt, outside_temp_c, solar_w_per_m2, n_occupants,
                               cooling_kw)
    /\ rtm' = RoomStepWith(rtm, unit_in')
    /\ unit_steps' = unit_steps + 1
    /\ UNCHANGED <<autopilot_state, acVars, twinVars, db, resp, concVars, evm, whm, wdm>>

RoomNext == RoomStepAction

SpecRoom == ACInit /\ [][RoomNext]_vars

-----------------------------------------------------------------------------
(* The seeded twin fed plugged-in charger readings one minute apart or     *)
(* more, as scripts/simulate_stream.py does for a charging car.            *)

MaxChargeSteps == 197

\* The charger of the seed.
ChargerId == 5

PluggedInSet ==
    { [ power_kw |-> 7000, temp_c |-> NoTemp, status |-> "charging" ],
      [ power_kw |-> 7000, temp_c |-> NoTemp, status |-> "on" ] }

ChargeAdvance == {60, 90}

ChargerIngest ==
    /\ twin.live
    /\ twin.step_count < MaxChargeSteps
    /\ \E tm \in PluggedInSet, adv \in ChargeAdvance :
          /\ EngineEffect("twin_ingest",
                          twin_ingest(twin, ChargerId, tm.power_kw, tm.temp_c,
                                      tm.status, now + adv, hour))
          /\ now' = now + adv
    /\ resp' = NoResp
    /\ UNCHANGED <<autopilot_state, hour, db, acVars, unitVars, concVars>>

ChargeNext == Seed \/ InitializeTwin \/ ChargerIngest

SpecCharge == Init /\ [][ChargeNext]_vars

-----------------------------------------------------------------------------
(* One room model on its own, constructed at any temperature of its        *)
(* operating interval and stepped with the extremes of its arguments.      *)

MaxClimateSteps == 2

ClimateRoomSet == {"Living Room", "Garage", "Study"}

ClimateDtSet == {0, 60}

\* The range of the outdoor readings.
ClimateOutsideSet == {2000, 4500}

\* Nothing, or everything at once: the solar peak of
\* compute_solar_irradiance (950 W/m2), the largest compute_occupancy
\* (3 persons), and the waste heat of a heater with its element on (100 W)
\* beside a washer/dryer in its drying phase (15% of 2000 W).
ClimateGainSet ==
    { [ solar_w_per_m2 |-> 0, n_occupants |-> 0, device_heat_kw |-> 0 ],
      [ solar_w_per_m2 |-> 950, n_occupants |-> 30, device_heat_kw |-> 400 ] }

\* No cooling, or one AC unit at full load and nominal COP, in W.
ClimateCoolingSet == {0, Round(RATED_POWER_KW * COP_NOMINAL, 10000)}

SetMin(S) == CHOOSE x \in S : \A y \in S : x <= y

SetMax(S) == CHOOSE x \in S : \A y \in S : x >= y

\* The temperature at which the wall draws in exactly the largest cooling
\* (low end) or lets out exactly the largest heat gain (high end), in
\* 1/100 C, rounded outwards.
RoomLow(m) ==
    SetMin(ClimateOutsideSet)
      - Ceil(m.r_wall * SetMax(ClimateCoolingSet), 100)

RoomHigh(m) ==
    LET g == CHOOSE g \in ClimateGainSet : g.solar_w_per_m2 > 0
    IN  SetMax(ClimateOutsideSet)
          + Ceil(m.r_wall * ( (g.solar_w_per_m2 * m.window_area * m.shgc) \div 100
                              + g.n_occupants * 100
                              + g.device_heat_kw * 10 ), 1000)

\* The initial_temp_c arguments tried: the ends of the interval, the middle
\* of the default comfort band, and each edge of the comfort
\* classification with its neighbour.
ClimateInitialSet(m) ==
    { RoomLow(m), 1999, 2000, 2199, 2200, 2400, 2600, 2601, 2800, 2801,
      RoomHigh(m) }

ClimateInit ==
    /\ acm = ACModel(1, 1, "AC")
    /\ ac_steps = 0
    /\ autopilot_state = << >>
    /\ evm = EVChargerModel(5, 4, "EV Charger")
    /\ whm = WaterHeaterModel(3, 3, "Water Heater")
    /\ wdm = WasherDryerModel(4, 3, "Washer Dryer")
    /\ \E room_name \in ClimateRoomSet :
         \E initial_temp_c \in ClimateInitialSet(RoomThermalModel(1, room_name, 2400)) :
            rtm = RoomThermalModel(1, room_name, initial_temp_c)
    /\ unit_steps = 0
    /\ unit_in = NoInput
    /\ twin = NoTwin
    /\ hour = 0
    /\ now = 0
    /\ result = NoResult
    /\ db = EmptyDb
    /\ resp = NoResp
    /\ thread = Idle
    /\ snap = NoSnap

ClimateStepAction ==
    /\ unit_steps < MaxClimateSteps
    /\ \E dt \in ClimateDtSet, outside_temp_c \in ClimateOutsideSet,
          g \in ClimateGainSet, cooling_kw \in ClimateCoolingSet :
          unit_in' = [ unit |-> "room", dt_seconds |-> dt,
                       outside_temp_c |-> outside_temp_c,
                       solar_w_per_m2 |-> g.solar_w_per_m2,
                       n_occupants |-> g.n_occupants,
                       device_heat_kw |-> g.device_heat_kw,
                       cooling_kw |-> cooling_kw ]
    /\ rtm' = RoomStepWith(rtm, unit_in')
    /\ unit_steps' = unit_steps + 1
    /\ UNCHANGED <<autopilot_state, acVars, twinVars, db, resp, concVars, evm, whm, wdm>>

ClimateNext == ClimateStepAction

SpecClimate == ClimateInit /\ [][ClimateNext]_vars

-----------------------------------------------------------------------------
(* The seeded twin fed a charging car's readings at uneven intervals: the  *)
(* charger draws its rated 7 kW throughout and no other device is stepped, *)
(* so the total device power is the same at every ingest.                  *)

MaxMeterSteps == 3

\* Seconds between two readings of time.time(): the clock set back, no
\* time at all, half a minute, a minute, a minute and a half.
MeterAdvance == {-30, 0, 30, 60, 90}

MeterIngest ==
    /\ twin.live
    /\ twin.step_count < MaxMeterSteps
    /\ \E tm \in PluggedInSet, adv \in MeterAdvance :
          /\ EngineEffect("twin_ingest",
                          twin_ingest(twin, ChargerId, tm.power_kw, tm.temp_c,
                                      tm.status, now + adv, hour))
          /\ now' = now + adv
    /\ resp' = NoResp
    /\ UNCHANGED <<autopilot_state, hour, db, acVars, unitVars, concVars>>

MeterNext == Seed \/ InitializeTwin \/ MeterIngest

SpecMeter == Init /\ [][MeterNext]_vars

-----------------------------------------------------------------------------
(* A home of one room with one climate unit: the database holds one room   *)
(* row and one device row, and a comfort band whose middle is 25 C, the    *)
(* temperature at which from_seed_data starts the room.                    *)

MaxOneUnitSteps == 1

OneUnitRoomSet == {"Living Room", "Bedroom", "Kitchen", "Study"}

\* Times of day, minutes since 00:00 UTC: 03:00, 14:31, 17:08.
OneUnitHourSet == {180, 871, 1028}

OneUnitAdvance == {0, 30, 60}

OneUnitDb(room_name, status) ==
    [ home |-> "Villa A",
      rooms |-> << [ id |-> 1, name |-> room_name ] >>,
      devices |-> << [ id |-> 1, room_id |-> 1, type |-> "ac", name |-> "AC",
                       status |-> status, setpoint |-> 2400 ] >>,
      pref |-> [ SeedPreferences EXCEPT !.comfort_min_c = 2400,
                                        !.comfort_max_c = 2600 ] ]

OneUnitInit ==
    /\ twin = NoTwin
    /\ hour \in OneUnitHourSet
    /\ now = 0
    /\ result = NoResult
    /\ \E room_name \in OneUnitRoomSet, status \in {"on", "off"} :
          db = OneUnitDb(room_name, status)
    /\ resp = NoResp
    /\ thread = Idle
    /\ snap = NoSnap
    /\ acm = ACModel(1, 1, "AC")
    /\ ac_steps = 0
    /\ autopilot_state = << >>
    /\ UnitsInit

\* twin_ingest for the unit with status "on", with or without an outdoor
\* reading of 36 C.
OneUnitIngest ==
    /\ twin.live
    /\ twin.step_count < MaxOneUnitSteps
    /\ \E power_kw \in {0, 900}, temp_c \in {NoTemp, 3600}, adv \in OneUnitAdvance :
          /\ EngineEffect("twin_ingest",
                          twin_ingest(twin, 1, power_kw, temp_c, "on",
                                      now + adv, hour))
          /\ now' = now + adv
    /\ resp' = NoResp
    /\ UNCHANGED <<autopilot_state, hour, db, acVars, unitVars, concVars>>

OneUnitNext == InitializeTwin \/ OneUnitIngest

SpecOneUnit == OneUnitInit /\ [][OneUnitNext]_vars

-----------------------------------------------------------------------------
(* One client at a time: readings, snapshots and preference updates, each  *)
(* call run to its end before the next.  unit_in keeps the arguments of    *)
(* the latest call, snap the snapshot the client last received.            *)

MaxSessionSteps == 2

\* The seeded home, and the same home without its two climate units.
NoClimateDb == [ SeededDb EXCEPT !.devices = SubSeq(SeedDevices, 3, 5) ]

SessionDbSet == {SeededDb, NoClimateDb}

\* The bedroom's climate unit, the charger, and an id with no model.
SessionDeviceIdSet == {2, 5, UnknownDevice}

\* A reading with status and a temperature of 35 C, and a bare power
\* reading.
SessionTelemetrySet ==
    { [ power_kw |-> 2500, temp_c |-> 3500, status |-> "on" ],
      [ power_kw |-> 1500, temp_c |-> NoTemp, status |-> NoStatus ] }

SessionAdvance == {30, 90}

\* Bodies of PUT /preferences: the seeded ones, and a band that ends at the
\* temperature the rooms start from.
SessionPreferenceSet ==
    { SeedPreferences,
      [ comfort_min_c |-> 2200, comfort_max_c |-> 2400,
        ev_target_soc |-> 6000, ev_departure_time |-> "08:00" ] }

\* A slip: the snapshot's device entries are the models' own state objects.
SnapshotAliases_DeviceStates == {"devices"}

\* The sections of a TwinSnapshot that are objects of the twin itself rather
\* than copies: none.  Every section is a dict or list built inside
\* get_state from scalar fields, the device states go through asdict, and
\* get_state_dict applies asdict to the whole.
SnapshotAliases == {}

\* What the holder of snapshot s reads in it while the twin is tw: a
\* section shared with the twin shows the twin's present value.
SnapshotRead(s, tw, t) ==
    [ sec \in DOMAIN s.state |->
        IF sec \in s.shared THEN get_state(tw, t)[sec] ELSE s.state[sec] ]

SessionSeed ==
    /\ db = EmptyDb
    /\ db' \in SessionDbSet
    /\ result' = NoResult
    /\ resp' = NoResp
    /\ UNCHANGED <<autopilot_state, twin, hour, now, acVars, unitVars, concVars>>

SessionIngest ==
    /\ twin.live => twin.step_count < MaxSessionSteps
    /\ \E device_id \in SessionDeviceIdSet, tm \in SessionTelemetrySet,
          adv \in SessionAdvance :
          /\ EngineEffect("twin_ingest",
                          twin_ingest(twin, device_id, tm.power_kw, tm.temp_c,
                                      tm.status, now + adv, hour))
          /\ now' = IF twin.live THEN now + adv ELSE now
          /\ unit_in' = [ unit |-> "ingest", device_id |-> device_id,
                          power_kw |-> tm.power_kw, temp_c |-> tm.temp_c,
                          status |-> tm.status ]
    /\ resp' = NoResp
    /\ UNCHANGED <<autopilot_state, hour, db, acVars, concVars, evm, whm, wdm, rtm, unit_steps>>

\* The outcome r of twin_state takes effect and the client keeps the dict.
SnapshotEffect(r) ==
    /\ EngineEffect("twin_state", r)
    /\ snap' = IF r.raised THEN snap
               ELSE [ taken |-> TRUE, state |-> r.ret, shared |-> SnapshotAliases ]

SessionSnapshot ==
    /\ SnapshotEffect(twin_state(twin, now))
    /\ unit_in' = [ unit |-> "snapshot" ]
    /\ resp' = NoResp
    /\ UNCHANGED <<autopilot_state, hour, now, db, acVars, thread, evm, whm, wdm, rtm, unit_steps>>

SessionUpdatePreferences ==
    /\ \E body \in SessionPreferenceSet :
          /\ RouteEffect(update_preferences(twin, db, body))
          /\ unit_in' = [ unit |-> "preferences", body |-> body ]
    /\ UNCHANGED <<autopilot_state, hour, now, acVars, concVars, evm, whm, wdm, rtm, unit_steps>>

SessionNext ==
    \/ SessionSeed
    \/ InitializeTwin
    \/ SessionIngest
    \/ SessionSnapshot
    \/ SessionUpdatePreferences

SpecSession == Init /\ [][SessionNext]_vars

-----------------------------------------------------------------------------
(* ml/optimizer.py: generate_recommendations                               *)
(*   base_kwh_saved 1/10 kWh; the savings multiplier in tenths;            *)
(*   estimated_kwh_saved, estimated_aed_saved, estimated_co2_saved and     *)
(*   confidence 1/100; comfort temperatures 1/100 degree C; ev_target_soc  *)
(*   1/100 %.  MODE_WEIGHTS and max_shift_minutes are read and never used. *)

DEVICE_ACTIONS ==
    [ ac |-> [ title |-> "Smart Pre-Cool Schedule", base_kwh_saved |-> 28,
               confidence |-> 88,
               action |-> [ type |-> "ac_precool", precool_to_c |-> NoTemp,
                            peak_setpoint_c |-> NoTemp, start |-> "11:00",
                            end |-> "14:00" ] ],
      ev_charger |-> [ title |-> "Shift EV Charging to Off-Peak",
                       base_kwh_saved |-> 35, confidence |-> 92,
                       action |-> [ type |-> "ev_shift", new_start |-> "23:00",
                                    new_end |-> NoStatus,
                                    target_soc |-> NoTemp ] ],
      water_heater |-> [ title |-> "Pre-Heat Water Before Peak",
                         base_kwh_saved |-> 15, confidence |-> 85,
                         action |-> [ type |-> "water_preheat",
                                      heat_start |-> "05:00",
                                      heat_end |-> "07:00" ] ] ]

\* constraints.get(key, default)
ConstraintGet(constraints, key, default) ==
    IF key \in DOMAIN constraints THEN constraints[key] ELSE default

\* multiplier = 0.7 if mode == "comfort" else (1.0 if mode == "balanced"
\* else 1.3), in tenths
ModeMultiplier(mode) ==
    IF mode = "comfort" THEN 7 ELSE IF mode = "balanced" THEN 10 ELSE 13

\* round(kwh * emission, 2) with emission 0.45.  The double 3.5 * 0.45 lies
\* just below 1.575 and rounds to 1.57; every other product the code forms
\* rounds as the exact one does.
EstimatedCo2(kwh) ==
    IF kwh = 350 THEN 157 ELSE Round(kwh * 45, 100)

\* The copy of a DEVICE_ACTIONS entry with its three estimates filled in.
WithEstimates(entry, action, confidence, mode) ==
    LET kwh == Round(entry.base_kwh_saved * ModeMultiplier(mode), 1)
    IN  [ title |-> entry.title, base_kwh_saved |-> entry.base_kwh_saved,
          confidence |-> confidence, action |-> action,
          estimated_kwh_saved |-> kwh,
          estimated_aed_saved |-> Round(kwh * 38, 100),
          estimated_co2_saved |-> EstimatedCo2(kwh) ]

\* A pre-cool action that cools one degree past the band on either side.
ACPrecoolAction_PastBand(comfort_min, comfort_max) ==
    [ DEVICE_ACTIONS.ac.action EXCEPT !.precool_to_c = comfort_min - 100,
                                      !.peak_setpoint_c = comfort_max + 100 ]

\* The pre-cool action: cool to comfort_min, coast up to comfort_max.
ACPrecoolAction(comfort_min, comfort_max) ==
    [ DEVICE_ACTIONS.ac.action EXCEPT !.precool_to_c = comfort_min,
                                      !.peak_setpoint_c = comfort_max ]

\* min(0.95, confidence + (0.05 if mode == "saver" else 0))
ACConfidence(mode) ==
    Min(95, DEVICE_ACTIONS.ac.confidence + (IF mode = "saver" THEN 5 ELSE 0))

EVShiftAction(ev_departure, ev_soc) ==
    [ DEVICE_ACTIONS.ev_charger.action EXCEPT !.target_soc = ev_soc,
                                              !.new_end = ev_departure ]

\* s, sorted by estimated_kwh_saved from high to low, with a placed behind
\* the entries that save as much: list.sort(reverse=True) is stable.
RECURSIVE InsertByImpact(_, _)
InsertByImpact(s, a) ==
    IF s = << >> THEN << a >>
    ELSE IF Head(s).estimated_kwh_saved >= a.estimated_kwh_saved
         THEN << Head(s) >> \o InsertByImpact(Tail(s), a)
         ELSE << a >> \o s

\* actions.sort(key=lambda a: a["estimated_kwh_saved"], reverse=True)
RECURSIVE SortByImpact(_)
SortByImpact(s) ==
    IF s = << >> THEN << >>
    ELSE InsertByImpact(SortByImpact(SubSeq(s, 1, Len(s) - 1)), s[Len(s)])

\* actions[:3]
TopThree(s) == SubSeq(s, 1, Min(3, Len(s)))

\* Both branches of the mode test at the third action build the same
\* water-heater entry.
generate_recommendations(constraints) ==
    LET mode == ConstraintGet(constraints, "mode", "balanced")
        comfort_min == ConstraintGet(constraints, "comfort_min_c", 2200)
        comfort_max == ConstraintGet(constraints, "comfort_max_c", 2600)
        ev_departure == ConstraintGet(constraints, "ev_departure_time", "07:30")
        ev_soc == ConstraintGet(constraints, "ev_target_soc", 8000)
        ac == WithEstimates(DEVICE_ACTIONS.ac,
                            ACPrecoolAction(comfort_min, comfort_max),
                            ACConfidence(mode), mode)
        ev == WithEstimates(DEVICE_ACTIONS.ev_charger,
                            EVShiftAction(ev_departure, ev_soc),
                            DEVICE_ACTIONS.ev_charger.confidence, mode)
        wh == WithEstimates(DEVICE_ACTIONS.water_heater,
                            DEVICE_ACTIONS.water_heater.action,
                            DEVICE_ACTIONS.water_heater.confidence, mode)
    IN  TopThree(SortByImpact(<< ac, ev, wh >>))

-----------------------------------------------------------------------------
(* The optimizer on its own: generate_recommendations under constraint     *)
(* sets that carry any of the keys, with bands that are wide, narrow and   *)
(* inverted, and with modes the code knows and one it does not.            *)

MaxOptimizeSteps == 1

OptimizeModeSet == {"comfort", "balanced", "saver", "eco"}

OptimizeMinSet == {1800, 2300, 2600}

OptimizeMaxSet == {2100, 2500}

OptimizeSocSet == {8000, 10000}

OptimizeKeys == {"mode", "comfort_min_c", "comfort_max_c", "ev_target_soc"}

\* The key sets of a request: every key, one key short, none.
OptimizeKeySets == {OptimizeKeys, {}} \cup {OptimizeKeys \ {k} : k \in OptimizeKeys}

OptimizeConstraints ==
    { [ k \in K |-> full[k] ] :
        K \in OptimizeKeySets,
        full \in [ mode : OptimizeModeSet, comfort_min_c : OptimizeMinSet,
                   comfort_max_c : OptimizeMaxSet,
                   ev_target_soc : OptimizeSocSet ] }

OptimizeCall ==
    /\ unit_steps < MaxOptimizeSteps
    /\ \E constraints \in OptimizeConstraints :
          /\ unit_in' = [ unit |-> "optimize", constraints |-> constraints ]
          /\ result' = [ op |-> "generate_recommendations", raised |-> FALSE,
                         ret |-> generate_recommendations(constraints) ]
    /\ unit_steps' = unit_steps + 1
    /\ UNCHANGED <<autopilot_state, acVars, twin, hour, now, db, resp, concVars, evm, whm, wdm, rtm>>

OptimizeNext == OptimizeCall

SpecOptimize == Init /\ [][OptimizeNext]_vars

-----------------------------------------------------------------------------
(* The process restarted in place: initialize_twin called again while a    *)
(* twin is set, on the database or on one that holds no home row, between  *)
(* readings, snapshots and preference updates.  unit_steps counts the      *)
(* calls of initialize_twin.                                               *)

MaxRestarts == 2

MaxRestartSteps == 2

\* The session handed to initialize_twin: the database as it is, or one
\* without a home row.
RestartSessionSet(database) == {database, EmptyDb}

RestartDeviceIdSet == {2, 5}

RestartAdvance == {30}

RestartTelemetrySet == { [ power_kw |-> 2500, temp_c |-> 3500, status |-> "on" ] }

RestartInitialize ==
    /\ unit_steps < MaxRestarts
    /\ \E db_session \in RestartSessionSet(db) :
          /\ EngineEffect("initialize_twin", initialize_twin(twin, db_session, now))
          /\ unit_in' = [ unit |-> "initialize", db_session |-> db_session ]
    /\ unit_steps' = unit_steps + 1
    /\ resp' = NoResp
    /\ UNCHANGED <<autopilot_state, hour, now, db, acVars, concVars, evm, whm, wdm, rtm>>

RestartIngest ==
    /\ twin.live => twin.step_count < MaxRestartSteps
    /\ \E device_id \in RestartDeviceIdSet, tm \in RestartTelemetrySet,
          adv \in RestartAdvance :
          /\ EngineEffect("twin_ingest",
                          twin_ingest(twin, device_id, tm.power_kw, tm.temp_c,
                                      tm.status, now + adv, hour))
          /\ now' = IF twin.live THEN now + adv ELSE now
          /\ unit_in' = [ unit |-> "ingest", device_id |-> device_id,
                          power_kw |-> tm.power_kw, temp_c |-> tm.temp_c,
                          status |-> tm.status ]
    /\ resp' = NoResp
    /\ UNCHANGED <<autopilot_state, hour, db, acVars, concVars, evm, whm, wdm, rtm, unit_steps>>

\* twin_state, the dict dropped by the caller.
RestartSnapshot ==
    /\ EngineEffect("twin_state", twin_state(twin, now))
    /\ unit_in' = [ unit |-> "snapshot" ]
    /\ resp' = NoResp
    /\ UNCHANGED <<autopilot_state, hour, now, db, acVars, concVars, evm, whm, wdm, rtm, unit_steps>>

RestartNext ==
    \/ Seed
    \/ RestartInitialize
    \/ RestartIngest
    \/ RestartSnapshot
    \/ SessionUpdatePreferences

SpecRestart == Init /\ [][RestartNext]_vars

-----------------------------------------------------------------------------
(* The seeded twin fed readings of three devices in turn, on a clock that  *)
(* never runs backwards.  unit_in keeps, with the arguments of the latest  *)
(* reading, the clock reading it was taken at, the dt_seconds it computed  *)
(* and the sum of dt_seconds over all readings so far.                     *)

MaxSharedSteps == 3

\* The living room's climate unit, the washer/dryer, the charger.
SharedDeviceIdSet == {1, 4, 5}

SharedTelemetrySet == { [ power_kw |-> 2500, temp_c |-> NoTemp, status |-> "on" ] }

\* Seconds between two readings of time.time().
SharedAdvance == {0, 30, 90}

\* Sum of dt_seconds over the readings before the latest input in.
DtSum(in) == IF in.unit = "ingest" THEN in.dt_sum ELSE 0

SharedIngest ==
    /\ twin.live
    /\ twin.step_count < MaxSharedSteps
    /\ \E device_id \in SharedDeviceIdSet, tm \in SharedTelemetrySet,
          adv \in SharedAdvance :
          /\ EngineEffect("twin_ingest",
                          twin_ingest(twin, device_id, tm.power_kw, tm.temp_c,
                                      tm.status, now + adv, hour))
          /\ now' = now + adv
          /\ unit_in' = [ unit |-> "ingest", device_id |-> device_id,
                          power_kw |-> tm.power_kw, temp_c |-> tm.temp_c,
                          status |-> tm.status, at |-> now + adv,
                          dt_seconds |-> DtSeconds(twin, now + adv),
                          dt_sum |-> DtSum(unit_in) + DtSeconds(twin, now + adv) ]
    /\ resp' = NoResp
    /\ UNCHANGED <<autopilot_state, hour, db, acVars, concVars, evm, whm, wdm, rtm, unit_steps>>

SharedNext == Seed \/ InitializeTwin \/ SharedIngest

SpecShared == Init /\ [][SharedNext]_vars

-----------------------------------------------------------------------------
(* The seeded twin fed charger readings of every kind: power at and around *)
(* the 0.01 kW threshold, any status or none, with the charger below its   *)
(* target or already at it.                                                *)

MaxPlugSteps == 2

\* The seeded home with the target of the seed (80 %), and with a target the
\* charger starts at (45 %).
PlugDbSet == { SeededDb, [ SeededDb EXCEPT !.pref.ev_target_soc = 4500 ] }

\* Telemetry power, W: none, the threshold, one watt above, the rated 7 kW.
PlugPowerSet == {0, 10, 11, 7000}

PlugStatusSet == {NoStatus, "charging", "off", "complete"}

PlugAdvance == {30, 60}

PlugSeed ==
    /\ db = EmptyDb
    /\ db' \in PlugDbSet
    /\ result' = NoResult
    /\ resp' = NoResp
    /\ UNCHANGED <<autopilot_state, twin, hour, now, acVars, unitVars, concVars>>

PlugIngest ==
    /\ twin.live
    /\ twin.step_count < MaxPlugSteps
    /\ \E power_kw \in PlugPowerSet, status \in PlugStatusSet, adv \in PlugAdvance :
          /\ EngineEffect("twin_ingest",
                          twin_ingest(twin, ChargerId, power_kw, NoTemp, status,
                                      now + adv, hour))
          /\ now' = now + adv
          /\ unit_in' = [ unit |-> "ingest", device_id |-> ChargerId,
                          power_kw |-> power_kw, temp_c |-> NoTemp,
                          status |-> status ]
    /\ resp' = NoResp
    /\ UNCHANGED <<autopilot_state, hour, db, acVars, concVars, evm, whm, wdm, rtm, unit_steps>>

PlugNext == PlugSeed \/ InitializeTwin \/ PlugIngest

SpecPlug == Init /\ [][PlugNext]_vars

-----------------------------------------------------------------------------
(* The seeded twin fed washer/dryer readings a minute apart through a      *)
(* whole 65-minute cycle, its completion and the reading after it.         *)

MaxWashSteps == 67

\* The washer/dryer of the seed.
WasherId == 4

\* Readings that report "on", that report "off" with no power, that report
\* exactly 0.1 kW in standby, and that carry 0.101 kW and no status.
WashTelemetrySet ==
    { [ power_kw |-> 0, temp_c |-> NoTemp, status |-> "on" ],
      [ power_kw |-> 0, temp_c |-> NoTemp, status |-> "off" ],
      [ power_kw |-> 100, temp_c |-> NoTemp, status |-> "standby" ],
      [ power_kw |-> 101, temp_c |-> NoTemp, status |-> NoStatus ] }

WashAdvance == {60}

WashIngest ==
    /\ twin.live
    /\ twin.step_count < MaxWashSteps
    /\ \E tm \in WashTelemetrySet, adv \in WashAdvance :
          /\ EngineEffect("twin_ingest",
                          twin_ingest(twin, WasherId, tm.power_kw, tm.temp_c,
                                      tm.status, now + adv, hour))
          /\ now' = now + adv
          /\ unit_in' = [ unit |-> "ingest", device_id |-> WasherId,
                          power_kw |-> tm.power_kw, temp_c |-> tm.temp_c,
                          status |-> tm.status ]
    /\ resp' = NoResp
    /\ UNCHANGED <<autopilot_state, hour, db, acVars, concVars, evm, whm, wdm, rtm, unit_steps>>

WashNext == Seed \/ InitializeTwin \/ WashIngest

SpecWash == Init /\ [][WashNext]_vars

-----------------------------------------------------------------------------
(* backend/autopilot_state.py: the per-home run limits.                    *)
(*   datetime.utcnow() is the clock `now` in seconds, its date() the whole *)
(*   days in it; the database is the user_preferences rows by home_id and  *)
(*   the number of recommendations rows.                                   *)

AUTOPILOT_COOLDOWN_SECONDS == 120

AUTOPILOT_MAX_ACTIONS_PER_DAY == 3

\* None in last_run_ts and actions_today_date.
NoTime == -1

\* datetime.utcnow().date(), as a day number
UtcDate(t) == t \div 86400

\* _get_home_state: the dict s with the entry of home_id created if missing
\* and its daily counter reset if its date is not today's.
get_home_state(s, home_id, t) ==
    LET entry == IF home_id \in DOMAIN s THEN s[home_id]
                 ELSE [ last_run_ts |-> NoTime, actions_today |-> 0,
                        actions_today_date |-> NoTime ]
        today == UtcDate(t)
        state == IF entry.actions_today_date # today
                 THEN [ entry EXCEPT !.actions_today = 0,
                                     !.actions_today_date = today ]
                 ELSE entry
    IN  [ h \in DOMAIN s \cup {home_id} |-> IF h = home_id THEN state ELSE s[h] ]

\* A slip: the cooldown looked at before the daily limit.
can_run_autopilot_CooldownFirst(s, home_id, t) ==
    LET states == get_home_state(s, home_id, t)
        state == states[home_id]
    IN  [ state |-> states,
          ret |->
            IF state.last_run_ts # NoTime
               /\ t - state.last_run_ts < AUTOPILOT_COOLDOWN_SECONDS
            THEN [ allowed |-> FALSE, reason |-> "Cooldown active",
                   remaining |-> AUTOPILOT_COOLDOWN_SECONDS - (t - state.last_run_ts) ]
            ELSE IF state.actions_today >= AUTOPILOT_MAX_ACTIONS_PER_DAY
            THEN [ allowed |-> FALSE, reason |-> "Daily limit reached",
                   remaining |-> 0 ]
            ELSE [ allowed |-> TRUE, reason |-> "ok", remaining |-> 0 ] ]

\* can_run_autopilot at clock reading t: the dict it leaves and the pair it
\* returns, the seconds of a cooldown reason apart from its words.
can_run_autopilot(s, home_id, t) ==
    LET states == get_home_state(s, home_id, t)
        state == states[home_id]
    IN  [ state |-> states,
          ret |->
            IF state.actions_today >= AUTOPILOT_MAX_ACTIONS_PER_DAY
            THEN [ allowed |-> FALSE, reason |-> "Daily limit reached",
                   remaining |-> 0 ]
            ELSE IF state.last_run_ts # NoTime
                    /\ t - state.last_run_ts < AUTOPILOT_COOLDOWN_SECONDS
            THEN [ allowed |-> FALSE, reason |-> "Cooldown active",
                   remaining |-> AUTOPILOT_COOLDOWN_SECONDS - (t - state.last_run_ts) ]
            ELSE [ allowed |-> TRUE, reason |-> "ok", remaining |-> 0 ] ]

\* A slip: the run counted in one counter for all homes.
RecordRun_AllHomes(s, home_id, t) ==
    LET states == get_home_state(s, home_id, t)
    IN  [ h \in DOMAIN states |->
            IF h = home_id
            THEN [ states[h] EXCEPT !.last_run_ts = t, !.actions_today = @ + 1 ]
            ELSE [ states[h] EXCEPT !.actions_today = @ + 1 ] ]

\* run_autopilot_for_home, lines 105-108: the in-memory state updated.
RecordRun(s, home_id, t) ==
    [ get_home_state(s, home_id, t) EXCEPT
        ![home_id].last_run_ts = t, ![home_id].actions_today = @ + 1 ]

\* run_autopilot_for_home at clock reading t: without a preferences row
\* nothing is stored; otherwise one recommendations row per action is
\* committed and the run is recorded.
run_autopilot_for_home(s, database, home_id, t) ==
    IF home_id \notin DOMAIN database.user_preferences
    THEN [ state |-> s, db |-> database, ret |-> << >> ]
    ELSE LET actions == generate_recommendations(database.user_preferences[home_id])
         IN  [ state |-> RecordRun(s, home_id, t),
               db |-> [ database EXCEPT !.recommendations = @ + Len(actions) ],
               ret |-> actions ]

-----------------------------------------------------------------------------
(* The autopilot limits on their own: can_run_autopilot and                *)
(* run_autopilot_for_home called in any order for two homes that have      *)
(* preferences and one that has none, a minute or a day after the call     *)
(* before.  unit_steps counts the calls; unit_in keeps the latest call and, *)
(* as history, for every home the time of its latest completed run and the *)
(* number of its completed runs on the UTC date of that call.              *)

MaxAutopilotCalls == 5

AutopilotHomeIdSet == {1, 2, 3}

\* Seconds between two calls: a minute, a day.
AutopilotAdvance == {60, 86400}

AutopilotPreferences ==
    [ comfort_min_c |-> 2200, comfort_max_c |-> 2600,
      ev_departure_time |-> "07:30", ev_target_soc |-> 8000,
      max_shift_minutes |-> 120, mode |-> "balanced" ]

AutopilotDb ==
    [ user_preferences |-> [ h \in {1, 2} |-> AutopilotPreferences ],
      recommendations |-> 0 ]

AutopilotInit ==
    /\ autopilot_state = << >>
    /\ db = AutopilotDb
    /\ now = 0
    /\ hour = 0
    /\ twin = NoTwin
    /\ result = NoResult
    /\ resp = NoResp
    /\ thread = Idle
    /\ snap = NoSnap
    /\ acm = ACModel(1, 1, "AC")
    /\ ac_steps = 0
    /\ UnitsInit

\* The history before any call: no run completed.
NoRuns == [ h \in AutopilotHomeIdSet |-> [ last |-> NoTime, today |-> 0 ] ]

\* The history kept with input in.
RunsOf(in) == IF in.unit = "none" THEN NoRuns ELSE in.runs

\* The history runs carried to clock reading t, a day's count dropped when
\* the date has moved on from that of clock reading t0, and one run of the
\* homes in completed added at t.
RunsAt(runs, t0, t, completed) ==
    [ h \in AutopilotHomeIdSet |->
        [ last |-> IF h \in completed THEN t ELSE runs[h].last,
          today |-> (IF UtcDate(t) # UtcDate(t0) THEN 0 ELSE runs[h].today)
                      + (IF h \in completed THEN 1 ELSE 0) ] ]

\* The outcome r of can_run_autopilot takes effect.
CanRunEffect(r) ==
    /\ autopilot_state' = r.state
    /\ result' = [ op |-> "can_run_autopilot", raised |-> FALSE, ret |-> r.ret ]

AutopilotCanRun ==
    /\ unit_steps < MaxAutopilotCalls
    /\ \E home_id \in AutopilotHomeIdSet, adv \in AutopilotAdvance :
          /\ CanRunEffect(can_run_autopilot(autopilot_state, home_id, now + adv))
          /\ now' = now + adv
          /\ unit_in' = [ unit |-> "can_run_autopilot", home_id |-> home_id,
                          runs |-> RunsAt(RunsOf(unit_in), now, now + adv, {}) ]
    /\ unit_steps' = unit_steps + 1
    /\ UNCHANGED <<db, hour, twin, resp, acVars, concVars, evm, whm, wdm, rtm>>

\* The outcome r of run_autopilot_for_home takes effect.
RunEffect(r) ==
    /\ autopilot_state' = r.state
    /\ db' = r.db
    /\ result' = [ op |-> "run_autopilot_for_home", raised |-> FALSE,
                   ret |-> r.ret ]

AutopilotRun ==
    /\ unit_steps < MaxAutopilotCalls
    /\ \E home_id \in AutopilotHomeIdSet, adv \in AutopilotAdvance :
          /\ RunEffect(run_autopilot_for_home(autopilot_state, db, home_id,
                                              now + adv))
          /\ now' = now + adv
          /\ unit_in' = [ unit |-> "run_autopilot_for_home", home_id |-> home_id,
                          runs |-> RunsAt(RunsOf(unit_in), now, now + adv,
                                          {home_id} \cap DOMAIN db.user_preferences) ]
    /\ unit_steps' = unit_steps + 1
    /\ UNCHANGED <<hour, twin, resp, acVars, concVars, evm, whm, wdm, rtm>>

AutopilotNext == AutopilotCanRun \/ AutopilotRun

SpecAutopilot == AutopilotInit /\ [][AutopilotNext]_vars

-----------------------------------------------------------------------------
(* Claims                                                                  *)

\* A step that is an ingest_telemetry call which returned.
IsIngest == result'.op = "twin_ingest" /\ ~result'.raised

\* The device models of each kind.
DevicesOfType(tw, dtype) ==
    { did \in DOMAIN tw.device_models : tw.device_type_map[did] = dtype }

\* C1: across any sequence of ingest_telemetry calls, with any device ids,
\* telemetry values and wall-clock readings, total_energy_kwh never decreases
\* from one call to the next.
C1_EnergyNeverDecreases ==
    [][ IsIngest =>
          twin'.energy.total_energy_kwh >= twin.energy.total_energy_kwh ]_vars

\* C2: ingest_telemetry with a device id the twin has no model for returns
\* {device_id, error: "unknown device"} and leaves the whole twin as it was:
\* environment, devices, rooms, energy, step counter and last-step time.
C2_UnknownDeviceMutatesNothing ==
    [][ (IsIngest /\ result'.ret.device_id \notin DOMAIN twin.device_models) =>
          /\ result'.ret = [ device_id |-> result'.ret.device_id,
                             error |-> "unknown device" ]
          /\ twin' = twin ]_vars

\* An ingest for a device the twin has a model for.
IsKnownIngest ==
    IsIngest /\ result'.ret.device_id \in DOMAIN twin.device_models

\* Room rid has gone through exactly one RoomThermalModel.step over dt, fed
\* with the environment and the device outputs of the state reached.
RoomStepped(rid, dt) ==
    twin'.room_models[rid] =
        RoomThermalModel_step(
            twin.room_models[rid], dt,
            twin'.environment.outside_temp_c,
            twin'.environment.solar_irradiance_w_m2,
            compute_occupancy(hour, twin.room_models[rid].room_name),
            RoomDeviceHeatKw(twin', rid), RoomCoolingKw(twin', rid),
            twin.comfort_min_c, twin.comfort_max_c)

\* Device did has gone through exactly one step of its model over dt, for
\* one of the telemetry readings.
DeviceStepped(did, dt) ==
    \E tm \in TelemetrySet :
        twin'.device_models[did] =
            step_device([ twin EXCEPT !.environment = twin'.environment ],
                        did, dt, tm.power_kw, tm.status).twin.device_models[did]

\* The twin after the whole ingest in progress, run from its entry state.
AfterWholeIngest ==
    ingest_telemetry(thread.pre, thread.device_id, thread.power_kw,
                     thread.temp_c, thread.status, now, hour).twin

\* C3: ingest and snapshot are critical sections: a snapshot obtained while
\* an ingest is in progress equals the twin either before that whole ingest
\* or after it, never a partially applied ingest.
C3_SnapshotsAreSerialized ==
    (snap.taken /\ thread.pc # "idle") =>
        \/ snap.state = get_state(thread.pre, now)
        \/ snap.state = get_state(AfterWholeIngest, now)

\* C4: before a successful initialize_twin each of twin_ingest, twin_state
\* and twin_update_preferences (and get_twin itself) fails with the "not
\* initialized" error and leaves the singleton unset, and the routes turn
\* that error into a recoverable response: twin_active false from /health,
\* 503 from /twin/state, an ignored update from /twin/update and
\* /preferences; no request lets an exception escape.
C4_NotInitializedIsRecoverable ==
    /\ ~resp.escaped
    /\ ~twin.live =>
          /\ twin = NoTwin
          /\ result.op \in {"get_twin", "twin_ingest", "twin_state",
                            "twin_update_preferences"} =>
                /\ result.raised
                /\ result.ret = [ error |-> "Twin not initialized" ]
          /\ resp.route = "health" =>
                resp.code = 200 /\ ~resp.body.twin_active
          /\ resp.route = "get_twin_state" => resp.code = 503
          /\ resp.route = "twin_update" =>
                \/ resp.code = 404
                \/ resp.code = 200 /\ resp.body.twin_step = NoPower
          /\ resp.route = "update_preferences" => resp.code = 200

\* The database is seeded but the backend has not been restarted: a
\* telemetry POST for a seeded device found no twin and was answered 200
\* with no computed value.
C4_Witness ==
    /\ ~twin.live /\ db.home = "Villa A"
    /\ result.op = "twin_ingest" /\ result.raised
    /\ resp.route = "twin_update" /\ resp.code = 200
    /\ resp.body.twin_step = NoPower

\* C5: in an ingest for a climate unit the unit is stepped with the room
\* temperature from before this ingest's room step, and the room step of
\* the same ingest consumes the cooling output the unit just computed.
C5_DeviceBeforeRooms ==
    [][ (IsKnownIngest /\ result'.ret.type = "ac") =>
          LET did == result'.ret.device_id
              rid == twin.device_room_map[did]
              before == twin.room_models[rid].state.current_temp_c
          IN  /\ result'.ret.computed.room_temp_c = before
              /\ \E tm \in TelemetrySet :
                    twin'.device_models[did] =
                        ACModel_step(twin.device_models[did],
                                     Min(now' - now, 60), before,
                                     twin'.environment.outside_temp_c,
                                     twin.device_models[did].state.setpoint_c,
                                     StatusOr(tm.status,
                                              twin.device_models[did].state.status))
              /\ twin'.room_models[rid].state.cooling_output_kw
                     = result'.ret.computed.cooling_output_kw
              /\ RoomStepped(rid, Min(now' - now, 60)) ]_vars

\* A climate unit has just been stepped on: its fresh cooling output is the
\* one its room consumed, and the room has moved since the unit read it.
C5_Witness ==
    /\ result.op = "twin_ingest" /\ ~result.raised
    /\ result.ret.device_id = 1
    /\ result.ret.computed.status = "on"
    /\ result.ret.computed.cooling_output_kw > 0
    /\ twin.room_models[1].state.cooling_output_kw
           = result.ret.computed.cooling_output_kw
    /\ twin.room_models[1].state.current_temp_c # result.ret.computed.room_temp_c

\* C6: each ingest for a known device performs exactly one step of that
\* device's model and exactly one step of every room model, and increases the
\* step count by exactly 1, so a snapshot after it reports a step count
\* strictly greater than a snapshot before it.
C6_OneStepPerIngest ==
    [][ IsKnownIngest =>
          LET did == result'.ret.device_id
              dt == Min(now' - now, 60)
          IN  /\ twin'.step_count = twin.step_count + 1
              /\ get_state(twin', now').twin_step_count
                     > get_state(twin, now).twin_step_count
              /\ DeviceStepped(did, dt)
              /\ \A other \in DOMAIN twin.device_models \ {did} :
                    twin'.device_models[other] = twin.device_models[other]
              /\ \A rid \in DOMAIN twin.room_models : RoomStepped(rid, dt) ]_vars

\* Two ingests have been accepted, the second for the washer/dryer, whose
\* cycle it started.
C6_Witness ==
    /\ result.op = "twin_ingest" /\ ~result.raised
    /\ result.ret.device_id = 4
    /\ twin.step_count = 2
    /\ get_state(twin, now).twin_step_count = 2
    /\ twin.device_models[4].running

\* C7: the dt an ingest uses for the device step, every room step and the
\* energy accumulation is the wall-clock time since the previous ingest (since
\* construction for the first one) capped at 60 seconds, the same for all
\* three.
C7_OneCappedDt ==
    [][ IsKnownIngest =>
          LET dt == IF now' - now > 60 THEN 60 ELSE now' - now
          IN  /\ twin.last_step_time = now
              /\ twin'.last_step_time = now'
              /\ DeviceStepped(result'.ret.device_id, dt)
              /\ \A rid \in DOMAIN twin.room_models : RoomStepped(rid, dt)
              /\ twin'.energy = accumulate(twin.energy, TotalPower(twin'), dt) ]_vars

\* Two ingests for the living-room unit while on, 30 s and 90 s apart, 120 s
\* of wall clock in all: the unit has run 30 s + 60 s and energy has been
\* accumulated.
C7_Witness ==
    /\ twin.live /\ twin.step_count = 2
    /\ now = 120 /\ twin.start_time = 0 /\ twin.last_step_time = 120
    /\ twin.device_models[1].state.runtime_minutes = 90
    /\ twin.energy.total_energy_kwh > 0

\* C8: an ingest whose elapsed time is zero or negative is clamped: nothing
\* integrates over a negative interval, so the energy total, the charger's
\* state of charge, each climate unit's runtime and the appliance's cycle
\* elapsed time do not move backwards.
C8_NonPositiveDtClamped ==
    [][ (IsIngest /\ now' <= now) =>
          /\ twin'.energy.total_energy_kwh >= twin.energy.total_energy_kwh
          /\ \A did \in DevicesOfType(twin, "ev_charger") :
                twin'.device_models[did].state.soc_pct
                    >= twin.device_models[did].state.soc_pct
          /\ \A did \in DevicesOfType(twin, "ac") :
                twin'.device_models[did].state.runtime_minutes
                    >= twin.device_models[did].state.runtime_minutes
          /\ \A did \in DevicesOfType(twin, "washer_dryer") :
                twin'.device_models[did].cycle_elapsed_min
                    >= twin.device_models[did].cycle_elapsed_min ]_vars

\* C9: after every climate-unit step with status "on", 1.5 <= cop <= 3.2 and
\* 30 <= compressor_load_pct <= 100; the load is exactly 30 when the room is
\* at or below the setpoint and min(100, 30 + 20 * (room - setpoint)) above it.
C9_OnStepBounds ==
    (ac_steps > 0 /\ acm.state.status = "on") =>
        LET st == acm.state
            err == st.room_temp_c - st.setpoint_c
        IN  /\ 15000 <= st.cop /\ st.cop <= 32000
            /\ 300 <= st.compressor_load_pct /\ st.compressor_load_pct <= 1000
            /\ (err <= 0 => st.compressor_load_pct = 300)
            /\ (err > 0 =>
                  st.compressor_load_pct =
                      (IF 300 + 2 * err < 1000 THEN 300 + 2 * err ELSE 1000))

\* C9 witness: an "on" step with the load capped at 100% and the cop floored.
C9_Witness ==
    /\ ac_steps > 0
    /\ acm.state.status = "on"
    /\ acm.state.room_temp_c - acm.state.setpoint_c > 350
    /\ acm.state.compressor_load_pct = 1000
    /\ acm.state.cop = 15000

\* C10: every step whose status is not "on" leaves power, cooling output and
\* compressor load at zero; it adds one to cycles_today when the previous
\* step was "on" and leaves cycles_today unchanged otherwise.
C10_NotOnStep ==
    [][ (ac_steps' = ac_steps + 1 /\ acm'.state.status # "on") =>
          /\ acm'.state.power_kw = 0
          /\ acm'.state.cooling_output_kw = 0
          /\ acm'.state.compressor_load_pct = 0
          /\ acm'.state.cycles_today =
                acm.state.cycles_today
                  + (IF ac_steps > 0 /\ acm.state.status = "on" THEN 1 ELSE 0)
      ]_vars

\* C10 witness: two steps, "on" then not "on": both edges counted, power 0.
C10_Witness ==
    /\ ac_steps = 2
    /\ acm.state.status # "on"
    /\ acm.state.cycles_today = 2
    /\ acm.state.power_kw = 0
    /\ acm.state.runtime_minutes > 0

\* A step call made on the stand-alone charger.
IsEVStep == unit_in'.unit = "ev" /\ unit_steps' = unit_steps + 1

IsChargerIngest ==
    /\ IsIngest
    /\ twin.live
    /\ result'.ret.device_id = ChargerId

\* C12: fed repeated plugged-in readings with power above zero, the charger
\* seeded at 45% with target 80% gains SOC in every ingest until the target
\* is reached, and the ingest result and the snapshot then report status
\* "complete" with power 0.
C12_ChargesToComplete ==
    [][ IsChargerIngest =>
          LET before == twin.device_models[ChargerId].state
              after == twin'.device_models[ChargerId].state
              shown == get_state(twin', now').devices[ChargerId]
          IN  /\ before.soc_pct < twin.ev_target_soc =>
                    after.soc_pct > before.soc_pct
              /\ before.soc_pct >= twin.ev_target_soc =>
                    /\ result'.ret.computed.status = "complete"
                    /\ result'.ret.computed.power_kw = 0
                    /\ shown.status = "complete"
                    /\ shown.power_kw = 0 ]_vars

\* C13: after any charger step time_to_target_minutes is zero whenever
\* soc_pct is at or above the target_soc of that step.
C13_NoTimeLeftAtTarget ==
    (unit_in.unit = "ev" /\ evm.state.soc_pct >= unit_in.target_soc) =>
        evm.state.time_to_target_minutes = 0

\* A step call made on the stand-alone heater.
IsHeaterStep == unit_in'.unit = "heater"

\* C14: thermostat hysteresis.  Without an "off" override the element is
\* switched on below target minus dead-band (57 C), switched off at or above
\* target (60 C) and keeps its previous value in [57, 60); with the "off"
\* override it is left off with power_kw 0 whatever the temperature.
C14_ThermostatHysteresis ==
    [][ IsHeaterStep =>
          LET T == whm.state.water_temp_c
          IN  IF unit_in'.status_override = "off"
              THEN ~whm'.state.element_on /\ whm'.state.power_kw = 0
              ELSE /\ T < 5700 => whm'.state.element_on
                   /\ T >= 6000 => ~whm'.state.element_on
                   /\ (T >= 5700 /\ T < 6000) =>
                          whm'.state.element_on = whm.state.element_on ]_vars

\* The element was kept on by a step taken inside the dead band.
C14_Witness ==
    /\ unit_in.unit = "heater"
    /\ unit_in.status_override # "off"
    /\ whm.state.element_on
    /\ whm.state.status = "heating"
    /\ whm.state.water_temp_c >= 5800
    /\ whm.state.water_temp_c < 6000

\* The largest temperature rise of one integration step: the element's
\* 2.85 kW for 60 s with no loss.
WHMaxRise == Ceil(95 * ELEMENT_POWER_KW * 60, 837000)

\* The bounds on the tank temperature over one heater step.
TankBounds ==
    /\ whm'.state.water_temp_c >= AMBIENT_C
    /\ whm'.state.water_temp_c <= 6000 + WHMaxRise
    /\ whm'.state.water_temp_c > 6000 =>
          \/ whm.state.water_temp_c < 6000
          \/ whm'.state.water_temp_c <= whm.state.water_temp_c

\* C15: from 45 C with target 60 C and dead-band 3 C, under any sequence of
\* heater steps with dt in (0, 60 s] the tank temperature is never below
\* ambient and never exceeds 60 C by more than the rise of one integration
\* step, the element is on in the step taken below 57 C and off in the step
\* taken at or above 60 C.
C15_TankBoundedAnyStep ==
    [][ IsHeaterStep =>
          /\ TankBounds
          /\ whm.state.water_temp_c < 5700 => whm'.state.element_on
          /\ whm.state.water_temp_c >= 6000 => ~whm'.state.element_on ]_vars

\* C15, amended: the same bounds; the element is on in the step taken below
\* 57 C unless that step carries the "off" override, and off in the step
\* taken at or above 60 C.
C15_TankBounded ==
    [][ IsHeaterStep =>
          /\ TankBounds
          /\ (whm.state.water_temp_c < 5700 /\ unit_in'.status_override # "off")
                => whm'.state.element_on
          /\ whm.state.water_temp_c >= 6000 => ~whm'.state.element_on ]_vars

\* The tank has overshot 60 C and the element is off.
C15_Witness ==
    /\ unit_in.unit = "heater"
    /\ unit_in.status_override # "off"
    /\ whm.state.water_temp_c > 6000
    /\ ~whm.state.element_on
    /\ whm.state.status = "standby"

\* A step call made on the stand-alone appliance.
IsWasherStep == unit_in'.unit = "washer"

\* The place of a reported phase in the cycle; 0 outside a cycle.
PhaseOrder(phase) ==
    CASE phase = "washing" -> 1
      [] phase = "rinsing" -> 2
      [] phase = "spinning" -> 3
      [] phase = "drying" -> 4
      [] phase = "complete" -> 5
      [] OTHER -> 0

\* The power each phase reports, W.
PhasePower(phase) ==
    CASE phase = "washing" -> 500
      [] phase = "rinsing" -> 300
      [] phase = "spinning" -> 800
      [] phase = "drying" -> 2000
      [] OTHER -> 0

C17_StaysComplete ==
    [][ ( /\ IsWasherStep
          /\ wdm.state.cycle_phase = "complete"
          /\ ~unit_in'.trigger_start ) =>
          /\ wdm'.state.cycle_phase = "complete"
          /\ wdm'.state.status = "complete"
          /\ wdm'.state.power_kw = 0 ]_vars

IsRoomStep == unit_in'.unit = "room" /\ unit_steps' = unit_steps + 1

\* cooling_kw minus the total heat gain of the step being taken, in
\* 1/(r_wall * 10000) kW.
CoolingExcess ==
    rtm.r_wall * unit_in'.cooling_kw * 10
      - RoomHeatGain(rtm, unit_in'.outside_temp_c, unit_in'.solar_w_per_m2,
                     unit_in'.n_occupants, unit_in'.device_heat_kw)

\* C20: for every room step, cooling_kw greater than the total heat gain
\* gives a negative temp_trend_c_per_hour, and zero cooling with the outdoor
\* temperature above the room temperature gives a non-negative trend.
C20_TrendSign ==
    [][ IsRoomStep =>
          /\ CoolingExcess > 0 => rtm'.state.temp_trend_c_per_hour < 0
          /\ (unit_in'.cooling_kw = 0
                /\ unit_in'.outside_temp_c > rtm.state.current_temp_c) =>
                rtm'.state.temp_trend_c_per_hour >= 0 ]_vars

\* C20, amended: in a step with dt_seconds > 0, cooling_kw greater than the
\* total heat gain gives a trend that is never positive, and negative once
\* the excess is more than 0.005 * c_thermal kW, below which the trend
\* rounds to 0.00; a step with dt_seconds = 0 reports trend 0; zero
\* cooling with the outdoor temperature above the room temperature gives a
\* non-negative trend.
C20_TrendSignRounded ==
    [][ IsRoomStep =>
          /\ (unit_in'.dt_seconds > 0 /\ CoolingExcess > 0) =>
                /\ rtm'.state.temp_trend_c_per_hour <= 0
                /\ 2 * CoolingExcess > rtm.r_wall * rtm.c_thermal =>
                      rtm'.state.temp_trend_c_per_hour < 0
          /\ unit_in'.dt_seconds = 0 => rtm'.state.temp_trend_c_per_hour = 0
          /\ (unit_in'.cooling_kw = 0
                /\ unit_in'.outside_temp_c > rtm.state.current_temp_c) =>
                rtm'.state.temp_trend_c_per_hour >= 0 ]_vars

\* A minute of 5 kW cooling against 36 C outside and full sun: the room is
\* trending down and has cooled.
C20_Witness ==
    /\ unit_in.unit = "room"
    /\ unit_in.dt_seconds = 60
    /\ unit_in.cooling_kw = 5000
    /\ unit_in.outside_temp_c = 3600
    /\ unit_in.solar_w_per_m2 = 800
    /\ rtm.state.temp_trend_c_per_hour < 0
    /\ rtm.state.current_temp_c < 2400
    /\ rtm.state.cooling_output_kw = 5000

\* Floor and ceiling, in 1/100 C, of the new temperature T + dT that the
\* room step being taken computes before it rounds it for storage.
NewTempFloor ==
    rtm.state.current_temp_c
      + Floor(-CoolingExcess * unit_in'.dt_seconds,
              rtm.r_wall * rtm.c_thermal * 3600)

NewTempCeil ==
    rtm.state.current_temp_c
      + Ceil(-CoolingExcess * unit_in'.dt_seconds,
             rtm.r_wall * rtm.c_thermal * 3600)

\* C21: after every room step (default comfort band 22..26 C) the
\* comfort_status is one of the four values, chosen from the new
\* temperature T the step computed: comfortable iff 22 <= T <= 26,
\* out_of_band iff T < 20 or T > 28, otherwise cool when T < 22 and warm
\* when T > 26.
C21_ComfortClassification ==
    [][ IsRoomStep =>
          LET st == rtm'.state.comfort_status
              out == NewTempFloor < 2200 - 200 \/ NewTempCeil > 2600 + 200
              inside == 2200 <= NewTempFloor /\ NewTempCeil <= 2600
          IN  /\ st \in {"comfortable", "cool", "warm", "out_of_band"}
              /\ (st = "comfortable") <=> inside
              /\ (st = "out_of_band") <=> out
              /\ (~inside /\ ~out) =>
                    /\ NewTempFloor < 2200 => st = "cool"
                    /\ NewTempCeil > 2600 => st = "warm" ]_vars

\* A room more than 2 C above the band after two uncooled steps is reported
\* out of band, not warm.
C21_Witness ==
    /\ unit_in.unit = "room"
    /\ unit_steps = 2
    /\ rtm.state.comfort_status = "out_of_band"
    /\ rtm.state.current_temp_c > 2800
    /\ unit_in.cooling_kw = 0
    /\ unit_in.dt_seconds = 60

\* C28: with outdoor readings in a bounded range and steps of 0 to 60 s, a
\* room's current_temp_c never leaves the interval fixed by that range, the
\* largest heat gain and the largest cooling output: from the lowest
\* outdoor temperature less r_wall times the largest cooling, to the
\* highest outdoor temperature plus r_wall times the largest gain (a room
\* constructed inside the interval; one constructed outside it moves
\* towards it).
C28_RoomTemperatureBounded ==
    /\ rtm.state.current_temp_c >= RoomLow(rtm)
    /\ rtm.state.current_temp_c <= RoomHigh(rtm)

\* A room at the top of its interval after full-minute steps under the
\* highest outdoor temperature, every heat gain and no cooling: the wall
\* lets out what comes in and the temperature stays.
C28_Witness ==
    /\ unit_in.unit = "room"
    /\ unit_steps = MaxClimateSteps
    /\ unit_in.dt_seconds = 60
    /\ unit_in.outside_temp_c = SetMax(ClimateOutsideSet)
    /\ unit_in.solar_w_per_m2 > 0
    /\ unit_in.cooling_kw = 0
    /\ rtm.state.current_temp_c = RoomHigh(rtm)

\* C22: in a twin initialised with one climate unit (setpoint 24 C) in one
\* room at 25 C and 36 C outdoors, after a single ingest for the unit with
\* status "on" the unit's cooling_output_kw is positive and the room's
\* temp_trend_c_per_hour is not, whatever the hour and the room's name.
C22_EndToEndCooling ==
    (twin.live /\ twin.step_count = 1 /\ result.op = "twin_ingest") =>
        /\ twin.device_models[1].state.cooling_output_kw > 0
        /\ twin.room_models[1].state.temp_trend_c_per_hour <= 0

\* A step in which the client asked for a snapshot and got one.
IsSnapshot ==
    unit_in'.unit = "snapshot" /\ result'.op = "twin_state" /\ ~result'.raised

IsPreferenceUpdate ==
    unit_in'.unit = "preferences" /\ resp'.route = "update_preferences"

\* C25: update_preferences changes only comfort_min_c, comfort_max_c,
\* ev_target_soc and ev_departure_time of the twin, to the values given; every
\* device state, every room state (the stored comfort_status included), the
\* environment, the energy accumulator, the step counter and the last-step
\* time are as before.
C25_PreferencesFrame ==
    [][ (IsPreferenceUpdate /\ twin.live) =>
          /\ twin'.comfort_min_c = unit_in'.body.comfort_min_c
          /\ twin'.comfort_max_c = unit_in'.body.comfort_max_c
          /\ twin'.ev_target_soc = unit_in'.body.ev_target_soc
          /\ twin'.ev_departure_time = unit_in'.body.ev_departure_time
          /\ DOMAIN twin' = DOMAIN twin
          /\ \A f \in DOMAIN twin \ {"comfort_min_c", "comfort_max_c",
                                      "ev_target_soc", "ev_departure_time"} :
                twin'[f] = twin[f] ]_vars

\* The band was moved to 22..24 C after a reading that left the living room
\* above 24 C: the room is still stored as comfortable.
C25_Witness ==
    /\ unit_in.unit = "preferences"
    /\ twin.live
    /\ twin.step_count > 0
    /\ twin.comfort_max_c = 2400
    /\ twin.room_models[1].state.current_temp_c > 2400
    /\ twin.room_models[1].state.comfort_status = "comfortable"
    /\ twin.ev_target_soc = 6000

\* The rooms of snapshot st that contain a climate unit.
ClimateRooms(st) ==
    { rid \in DOMAIN st.rooms :
        \E did \in DOMAIN st.devices :
           st.devices[did].room_id = rid /\ st.devices[did].type = "ac" }

\* C26: in every snapshot rooms_total is the number of rooms that contain a
\* climate unit, rooms_comfortable the number of those whose comfort_status
\* is comfortable or cool, 0 <= rooms_comfortable <= rooms_total, and
\* compliance_pct is 100 * rooms_comfortable / rooms_total to one decimal
\* (100 without a climate-controlled room), so within [0, 100].
C26_ComfortSummary ==
    snap.taken =>
        LET st == snap.state
            ok == { rid \in ClimateRooms(st) :
                      st.rooms[rid].comfort_status \in {"comfortable", "cool"} }
            cs == st.comfort_summary
        IN  /\ cs.rooms_total = Cardinality(ClimateRooms(st))
            /\ cs.rooms_comfortable = Cardinality(ok)
            /\ 0 <= cs.rooms_comfortable
            /\ cs.rooms_comfortable <= cs.rooms_total
            /\ cs.compliance_pct =
                  IF cs.rooms_total = 0 THEN 1000
                  ELSE Round(1000 * cs.rooms_comfortable, cs.rooms_total)
            /\ 0 <= cs.compliance_pct
            /\ cs.compliance_pct <= 1000

\* A snapshot of four rooms, two of them with a climate unit, one of these
\* comfortable and the other warm: 50 %.
C26_Witness ==
    /\ snap.taken
    /\ Cardinality(DOMAIN snap.state.rooms) = 4
    /\ snap.state.comfort_summary.rooms_total = 2
    /\ snap.state.comfort_summary.rooms_comfortable = 1
    /\ snap.state.comfort_summary.compliance_pct = 500
    /\ snap.state.rooms[3].comfort_status = "warm"

\* A step in which a reading was ingested by the live twin.
IsSessionIngest ==
    /\ unit_in'.unit = "ingest"
    /\ twin.live
    /\ twin'.step_count = twin.step_count + 1

\* C27: an ingest from a climate unit with a temperature reading sets the
\* environment's outside_temp_c to exactly that reading; an ingest from any
\* other kind of device, from an unknown device, or without a temperature
\* leaves outside_temp_c as it was.
C27_OutsideTemperature ==
    [][ IsSessionIngest =>
          twin'.environment.outside_temp_c =
              IF /\ unit_in'.temp_c # NoTemp
                 /\ unit_in'.device_id \in DOMAIN twin.device_type_map
                 /\ twin.device_type_map[unit_in'.device_id] = "ac"
              THEN unit_in'.temp_c
              ELSE twin.environment.outside_temp_c ]_vars

\* A reading of 35 C from the bedroom's unit, then a charger reading without
\* a temperature: the outdoor temperature is 35 C, no longer the initial
\* 36 C.
C27_Witness ==
    /\ twin.live
    /\ twin.step_count = 2
    /\ unit_in.unit = "ingest"
    /\ unit_in.device_id = 5
    /\ unit_in.temp_c = NoTemp
    /\ twin.environment.outside_temp_c = 3500

\* C29: peak_power_kw never decreases, and after every ingest it is at least
\* the power summed over all devices at that ingest; cost_aed and co2_kg are
\* total_energy_kwh times 0.38 and times 0.45, rounded to 0.01, after every
\* step, so neither decreases in a step in which the total does not.
C29_PeakAndDerivedTotals ==
    [][ twin'.live =>
          /\ twin'.energy.cost_aed = Round(twin'.energy.total_energy_kwh * 38, 10000)
          /\ twin'.energy.co2_kg = Round(twin'.energy.total_energy_kwh * 45, 10000)
          /\ IsIngest => twin'.energy.peak_power_kw >= TotalPower(twin')
          /\ twin.live =>
                /\ twin'.energy.peak_power_kw >= twin.energy.peak_power_kw
                /\ twin'.energy.total_energy_kwh >= twin.energy.total_energy_kwh =>
                      /\ twin'.energy.cost_aed >= twin.energy.cost_aed
                      /\ twin'.energy.co2_kg >= twin.energy.co2_kg ]_vars

\* After a charging minute at 7 kW and a second reading that stopped the
\* charger, the peak stands above the present power and the cost is not 0.
C29_Witness ==
    /\ twin.live
    /\ twin.step_count = 2
    /\ result.op = "twin_ingest"
    /\ twin.energy.peak_power_kw >= 7000
    /\ TotalPower(twin) < twin.energy.peak_power_kw
    /\ twin.energy.cost_aed > 0
    /\ twin.energy.co2_kg > twin.energy.cost_aed

\* The absolute value.
Abs(x) == IF x < 0 THEN -x ELSE x

\* The constant total device power of the metering run, W: the charger's
\* rated rate.
MeterPower == EVState.max_charge_rate_kw * 100

\* C23 as stated: after N ingestions at constant total power P the
\* total_energy_kwh equals P times the wall-clock time elapsed over them,
\* within the rounding of N accumulations (0.00005 kWh each), whatever the
\* spacing of the ingestions.
C23_EnergyIsPowerTimesWallClock ==
    (twin.live /\ twin.step_count >= 1) =>
        /\ TotalPower(twin) = MeterPower
        /\ Abs(360 * twin.energy.total_energy_kwh
                 - MeterPower * (twin.last_step_time - twin.start_time))
             <= 180 * twin.step_count

\* C23: each ingestion at total power P adds P times min(time since the
\* previous ingestion, 60 s) to total_energy_kwh, rounded to 0.0001 kWh.
C23_EnergyIsPowerTimesCappedStep ==
    [][ (IsChargerIngest /\ twin'.step_count = twin.step_count + 1) =>
          /\ TotalPower(twin') = MeterPower
          /\ Abs(360 * (twin'.energy.total_energy_kwh - twin.energy.total_energy_kwh)
                   - MeterPower * Min(now' - twin.last_step_time, 60))
               <= 180 ]_vars

\* Three ingestions 90, 30 and 60 s apart in some order: 180 s of wall
\* clock, 150 s integrated, 0.2917 kWh against the 0.35 kWh of 7 kW over
\* 180 s.
C23_Witness ==
    /\ twin.live
    /\ twin.step_count = 3
    /\ twin.last_step_time - twin.start_time = 180
    /\ twin.energy.total_energy_kwh = 2917
    /\ TotalPower(twin) = MeterPower

\* C30: a step that charges reports the full rated rate when it starts
\* below 80% SOC and rated * max(0.2, 1 - 0.8 * (SOC - 80) / 20) when it
\* starts in [80, 100); so power_kw lies between 20% and 100% of the rated
\* rate, is not above the power of the charging step before it (SOC never
\* decreases), and the new SOC is the old one plus
\* rate * 0.92 * dt_hours / capacity * 100, to the 0.01 % the state keeps,
\* and at most 100.
C30_ChargeRateTaper ==
    [][ (IsEVStep /\ evm'.state.status = "charging") =>
          LET st == evm.state
              \* the rate as a fraction of the rated one, in 1/2500
              frac == IF st.soc_pct < 8000 THEN 2500
                      ELSE Max(500, 2500 - (st.soc_pct - 8000))
              rated == st.max_charge_rate_kw * 100
              dt == unit_in'.dt_seconds
              g == GCD(dt, 225000 * st.battery_capacity_kwh)
          IN  /\ st.soc_pct < 10000
              /\ st.soc_pct < 8000 => evm'.state.power_kw = rated
              /\ evm'.state.power_kw = Round(rated * frac, 2500)
              /\ 5 * evm'.state.power_kw >= rated
              /\ evm'.state.power_kw <= rated
              /\ st.status = "charging" => evm'.state.power_kw <= st.power_kw
              /\ evm'.state.soc_pct =
                    Min(10000,
                        RoundFrom(st.soc_pct,
                                  st.max_charge_rate_kw * frac * 23 * (dt \div g),
                                  (225000 * st.battery_capacity_kwh) \div g)) ]_vars

\* A charging step begun in the taper, at less than the rated power, that
\* fills the battery: the SOC is clamped at 100.
C30_Witness ==
    /\ unit_in.unit = "ev"
    /\ evm.state.status = "charging"
    /\ evm.state.power_kw < evm.state.max_charge_rate_kw * 100
    /\ 5 * evm.state.power_kw >= evm.state.max_charge_rate_kw * 100
    /\ evm.state.soc_pct = 10000

\* The constraints and the actions of the latest generate_recommendations.
IsOptimize == unit_in.unit = "optimize"

Requested(key, default) == ConstraintGet(unit_in.constraints, key, default)

\* C31: generate_recommendations returns at most 3 actions for every mode and
\* constraint set; each action has estimated_kwh_saved >= 0 and a confidence
\* in [0, 1]; the ac_precool action's precool_to_c is not below the requested
\* comfort_min_c and its peak_setpoint_c is not above the requested
\* comfort_max_c.
C31_RecommendationsWithinLimits ==
    IsOptimize =>
        /\ Len(result.ret) <= 3
        /\ \A i \in 1..Len(result.ret) :
              /\ result.ret[i].estimated_kwh_saved >= 0
              /\ result.ret[i].confidence \in 0..100
              /\ result.ret[i].action.type = "ac_precool" =>
                    /\ result.ret[i].action.precool_to_c >= Requested("comfort_min_c", 2200)
                    /\ result.ret[i].action.peak_setpoint_c <= Requested("comfort_max_c", 2600)

\* A saver-mode request with an inverted band, answered with three actions of
\* which the second is the pre-cool.
C31_Witness ==
    /\ IsOptimize
    /\ Requested("mode", "balanced") = "saver"
    /\ Requested("comfort_min_c", 2200) = 2600
    /\ Requested("comfort_max_c", 2600) = 2100
    /\ Len(result.ret) = 3
    /\ result.ret[2].action.type = "ac_precool"
    /\ result.ret[2].action.precool_to_c = 2600
    /\ result.ret[2].estimated_kwh_saved = 364

\* The latest step was a call of initialize_twin.
IsInitialize == unit_in'.unit = "initialize" /\ result'.op = "initialize_twin"

\* Device model m of kind dtype is as its constructor and from_seed_data
\* leave it with room temperature mid: nothing run, nothing drawn, nothing
\* counted, the charger at 45 %, the tank at 45 C, no cycle started.
IsSeedDevice(m, dtype, mid) ==
    /\ m.state.power_kw = 0
    /\ dtype = "ac" =>
          /\ m.state.runtime_minutes = 0 /\ m.state.cycles_today = 0
          /\ m.state.cooling_output_kw = 0 /\ m.state.room_temp_c = mid
          /\ ~m.was_on
    /\ dtype = "ev_charger" =>
          /\ m.state.soc_pct = 4500 /\ m.state.status = "standby"
          /\ m.state.energy_delivered_kwh = [ wh |-> 0, frac |-> 0 ]
    /\ dtype = "water_heater" =>
          /\ m.state.water_temp_c = 4500 /\ ~m.state.element_on
          /\ m.state.energy_stored_kwh = 0
    /\ dtype = "washer_dryer" =>
          /\ ~m.running /\ m.cycle_elapsed_min = 0
          /\ m.state.cycle_phase = "idle" /\ m.state.energy_this_cycle_kwh = 0

\* Twin tw is as a construction at time t from a database with preferences
\* pref leaves it.
IsSeedTwin(tw, pref, t) ==
    LET mid == (pref.comfort_min_c + pref.comfort_max_c) \div 2
    IN  /\ tw.live /\ tw.step_count = 0
        /\ tw.start_time = t /\ tw.last_step_time = t
        /\ tw.energy.total_energy_kwh = 0 /\ tw.energy.cost_aed = 0
        /\ tw.energy.co2_kg = 0 /\ tw.energy.peak_power_kw = 0
        /\ \A d \in DOMAIN tw.device_models :
              IsSeedDevice(tw.device_models[d], tw.device_type_map[d], mid)
        /\ \A r \in DOMAIN tw.room_models :
              /\ tw.room_models[r].state.current_temp_c \in {mid, Min(3600, mid + 400)}
              /\ tw.room_models[r].state.temp_trend_c_per_hour = 0
              /\ tw.room_models[r].state.cooling_output_kw = 0

\* C32: there is one module-level twin, and twin_ingest, twin_state and
\* twin_update_preferences act on the instance the latest successful
\* initialize_twin installed: only a successful initialize_twin changes which
\* instance is set, an ingest continues its step count, a snapshot reports
\* it, a preference update writes its band.  An initialize_twin that finds
\* no home returns None and leaves the twin (set or unset) as it was; a
\* successful one installs a twin with step count 0, zero energy totals and
\* every device and room in its seed state.
C32_SingleTwinInstance ==
    [][ /\ (IsInitialize /\ unit_in'.db_session.home = "None") =>
              /\ ~result'.ret.twin
              /\ twin' = twin
        /\ (IsInitialize /\ unit_in'.db_session.home # "None") =>
              /\ result'.ret.twin
              /\ IsSeedTwin(twin', unit_in'.db_session.pref, now)
        /\ ~IsInitialize =>
              /\ twin'.live = twin.live
              /\ twin.live => /\ twin'.start_time = twin.start_time
                              /\ twin'.home_name = twin.home_name
        /\ result'.op \in {"twin_ingest", "twin_state", "twin_update_preferences"} =>
              result'.raised = ~twin.live
        /\ (result'.op = "twin_ingest" /\ twin.live) =>
              twin'.step_count = twin.step_count + 1
        /\ (result'.op = "twin_state" /\ twin.live) =>
              /\ result'.ret.twin_step_count = twin.step_count
              /\ result'.ret.twin_uptime_seconds = now - twin.start_time
        /\ (result'.op = "twin_update_preferences" /\ twin.live) =>
              /\ twin'.comfort_min_c = unit_in'.body.comfort_min_c
              /\ twin'.step_count = twin.step_count ]_vars

\* A second initialize_twin that succeeded after the first twin had taken
\* readings: the twin now set was constructed later than time 0 and has
\* taken none.
C32_Witness ==
    /\ result.op = "initialize_twin" /\ unit_in.unit = "initialize"
    /\ result.ret.twin
    /\ unit_steps = 2
    /\ twin.live /\ twin.start_time > 0 /\ twin.step_count = 0

\* An initialize_twin that found no home while a twin with readings was set.
C32_NoHomeReached ==
    /\ result.op = "initialize_twin" /\ unit_in.unit = "initialize"
    /\ ~result.ret.twin
    /\ twin.live /\ twin.step_count > 0

\* A reading for device_id taken by the twin in the latest step.
IsIngestFor(device_id) ==
    /\ IsIngest
    /\ unit_in'.unit = "ingest"
    /\ unit_in'.device_id = device_id

\* Sum of the last computed power_kw of the devices other than device_id.
OtherPower(tw, device_id) ==
    LET others == DOMAIN tw.device_models \ {device_id}
    IN  SumOver(others, [ d \in others |-> tw.device_models[d].state.power_kw ])

\* C33: an ingest for device A steps only A's model: every other device's
\* model (status, power, SOC, tank temperature, cycle phase and elapsed time,
\* runtime, cycle counter) is the same before and after it, while the power
\* those devices last computed is part of the total that the same ingest
\* integrates into total_energy_kwh.
C33_OtherDevicesUntouched ==
    [][ \A a \in RestartDeviceIdSet :
          IsIngestFor(a) =>
              /\ DOMAIN twin'.device_models = DOMAIN twin.device_models
              /\ \A d \in DOMAIN twin.device_models \ {a} :
                    twin'.device_models[d] = twin.device_models[d]
              /\ twin'.energy.total_energy_kwh =
                    RoundFrom(twin.energy.total_energy_kwh,
                              (twin'.device_models[a].state.power_kw
                                  + OtherPower(twin, a))
                                 * Min(twin'.last_step_time - twin.last_step_time, 60),
                              360) ]_vars

\* A charger reading taken while the bedroom's climate unit, stepped by an
\* earlier reading, draws power: the unit's draw is in the energy total.
C33_Witness ==
    /\ twin.live /\ twin.step_count = 2
    /\ result.op = "twin_ingest" /\ unit_in.unit = "ingest"
    /\ unit_in.device_id = 5
    /\ twin.device_models[5].state.status = "charging"
    /\ twin.device_models[2].state.power_kw > 0
    /\ twin.device_models[2].state.runtime_minutes = 30
    /\ twin.energy.total_energy_kwh > 0

\* Clock reading of the previous ingest of any device, or of the twin's
\* construction when there was none.
PreviousIngestAt == IF unit_in.unit = "ingest" THEN unit_in.at ELSE twin.start_time

\* Simulated seconds device did of twin tw has accumulated: a climate unit's
\* runtime, the appliance's elapsed cycle time; for the charger, which keeps
\* no clock, the least time in which its rated 7 kW at 92 % would have
\* delivered the whole Wh it has delivered, in 1/644000 s.
SimulatedWithin(tw, did, seconds) ==
    LET m == tw.device_models[did]
        dtype == tw.device_type_map[did]
    IN  /\ dtype = "ac" => m.state.runtime_minutes <= seconds
        /\ dtype = "washer_dryer" => m.cycle_elapsed_min <= seconds
        /\ dtype = "ev_charger" =>
              m.state.energy_delivered_kwh.wh * 360000 <= 644000 * seconds

\* C34: the dt handed to a device's step is the time since the previous
\* ingest of any device (capped at 60 s), not since that device's own
\* previous step; on a clock that does not run backwards the sum of dt over
\* all ingests never exceeds the time elapsed since construction, and the
\* simulated time accumulated by any one device never exceeds that sum.
C34_SharedStepClock ==
    [][ IsIngest =>
          /\ unit_in'.dt_seconds = Min(now' - PreviousIngestAt, 60)
          /\ \A d \in DevicesOfType(twin, "ac") \cap {unit_in'.device_id} :
                twin'.device_models[d].state.runtime_minutes
                    = twin.device_models[d].state.runtime_minutes
                        + Min(now' - PreviousIngestAt, 60)
          /\ unit_in'.dt_sum <= now' - twin'.start_time
          /\ \A d \in DOMAIN twin'.device_models :
                SimulatedWithin(twin', d, unit_in'.dt_sum) ]_vars

\* The climate unit stepped at 30 s and again at 90 s with a washer reading
\* at 60 s between: its second step ran over 30 s, so its runtime is 60 s
\* out of 90 s of steps.
C34_Witness ==
    /\ twin.live /\ twin.step_count = 3 /\ now = 90
    /\ unit_in.unit = "ingest" /\ unit_in.device_id = 1
    /\ unit_in.dt_seconds = 30 /\ unit_in.dt_sum = 90
    /\ twin.device_models[1].state.runtime_minutes = 60
    /\ twin.device_models[4].running
    /\ twin.device_models[4].cycle_elapsed_min = 30

C38_StartTrigger ==
    [][ IsIngestFor(WasherId) =>
          LET old == twin.device_models[WasherId]
              new == twin'.device_models[WasherId]
              dt == Min(now' - twin.last_step_time, 60)
              triggering == unit_in'.status = "on" \/ unit_in'.power_kw > 100
          IN  /\ old.running =>
                    new.cycle_elapsed_min = old.cycle_elapsed_min + dt
              /\ (~old.running /\ triggering) =>
                    /\ new.running
                    /\ new.state.status = "washing"
                    /\ new.cycle_elapsed_min = 0 + dt
                    /\ new.state.energy_this_cycle_kwh = 0 + 500 * dt
              /\ (~old.running /\ ~triggering) =>
                    /\ ~new.running
                    /\ new.state.status = "off"
                    /\ new.cycle_elapsed_min = old.cycle_elapsed_min
      ]_vars

\* A cycle started by the first reading has run its 65 minutes and completed
\* at the 66th; the 67th reading, still "on", has started the next cycle.
C38_Witness ==
    /\ twin.live /\ twin.step_count = 67
    /\ unit_in.unit = "ingest" /\ unit_in.status = "on"
    /\ twin.device_models[WasherId].running
    /\ twin.device_models[WasherId].cycle_elapsed_min = 60
    /\ twin.device_models[WasherId].state.status = "washing"
    /\ twin.device_models[WasherId].state.energy_this_cycle_kwh = 30000

\* The latest step was can_run_autopilot(h).
IsCanRun(h) ==
    /\ unit_steps' = unit_steps + 1
    /\ unit_in'.unit = "can_run_autopilot"
    /\ unit_in'.home_id = h

\* The latest step was run_autopilot_for_home(h, db).
IsRun(h) ==
    /\ unit_steps' = unit_steps + 1
    /\ unit_in'.unit = "run_autopilot_for_home"
    /\ unit_in'.home_id = h

\* The latest step was a run for h that was not skipped.
IsCompletedRun(h) == IsRun(h) /\ h \in DOMAIN db.user_preferences

\* C39: once run_autopilot_for_home has completed 3 times for a home on one
\* UTC date, can_run_autopilot returns False with the daily-limit reason for
\* the rest of that date; the home's counter is back at 0 at its first access
\* on a new UTC date, so that after every access it is the number of the
\* home's completed runs on the date of the access; and a call for one home
\* leaves every other home's entry as it was.
C39_DailyLimit ==
    [][ \A h \in AutopilotHomeIdSet :
          /\ (IsCanRun(h) /\ unit_in'.runs[h].today >= 3) =>
                /\ ~result'.ret.allowed
                /\ result'.ret.reason = "Daily limit reached"
          /\ (IsCanRun(h) \/ IsCompletedRun(h)) =>
                /\ autopilot_state'[h].actions_today_date = UtcDate(now')
                /\ autopilot_state'[h].actions_today = unit_in'.runs[h].today
          /\ (IsCanRun(h) /\ h \in DOMAIN autopilot_state
                /\ autopilot_state[h].actions_today_date # UtcDate(now')) =>
                autopilot_state'[h].actions_today = 0
          /\ (IsCanRun(h) \/ IsRun(h)) =>
                \A other \in DOMAIN autopilot_state \ {h} :
                    autopilot_state'[other] = autopilot_state[other]
      ]_vars

\* Home 1 refused for the daily limit after its three runs of the day, with
\* home 2 at one run.
C39_Witness ==
    /\ unit_in.unit = "can_run_autopilot" /\ unit_in.home_id = 1
    /\ ~result.ret.allowed
    /\ result.ret.reason = "Daily limit reached"
    /\ autopilot_state[1].actions_today = 3
    /\ 2 \in DOMAIN autopilot_state
    /\ autopilot_state[2].actions_today = 1

\* A counter reset seen: home 1 asked on the day after its run.
C39_ResetReached ==
    /\ unit_in.unit = "can_run_autopilot" /\ unit_in.home_id = 1
    /\ autopilot_state[1].actions_today = 0
    /\ autopilot_state[1].last_run_ts # NoTime
    /\ result.ret.allowed

\* C40 as stated: can_run_autopilot returns False with a cooldown reason
\* whenever fewer than 120 seconds have passed since the home's last completed
\* run, and (True, "ok") only when the daily limit is not reached and no run
\* has happened or at least 120 seconds have passed; a run skipped for want
\* of preferences records neither a timestamp nor a count.
C40_CooldownWhenever ==
    [][ \A h \in AutopilotHomeIdSet :
          /\ IsCanRun(h) =>
                LET last == unit_in'.runs[h].last
                    today == unit_in'.runs[h].today
                IN  /\ (last # NoTime /\ now' - last < 120) =>
                          /\ ~result'.ret.allowed
                          /\ result'.ret.reason = "Cooldown active"
                    /\ result'.ret.allowed =>
                          /\ result'.ret.reason = "ok"
                          /\ today < 3
                          /\ (last = NoTime \/ now' - last >= 120)
          /\ (IsRun(h) /\ ~IsCompletedRun(h)) =>
                /\ autopilot_state' = autopilot_state
                /\ result'.ret = << >>
      ]_vars

\* C40: can_run_autopilot returns False with a cooldown reason whenever fewer
\* than 120 seconds have passed since the home's last completed run and the
\* home's daily limit is not reached (at the limit the reason is the daily
\* limit, cooldown or not); it returns (True, "ok") exactly when the daily
\* limit is not reached and no run has happened or at least 120 seconds have
\* passed; a run skipped for want of preferences records neither a timestamp
\* nor a count and stores nothing.
C40_CooldownBelowLimit ==
    [][ \A h \in AutopilotHomeIdSet :
          /\ IsCanRun(h) =>
                LET last == unit_in'.runs[h].last
                    today == unit_in'.runs[h].today
                    cooling == last # NoTime /\ now' - last < 120
                IN  /\ today >= 3 =>
                          /\ ~result'.ret.allowed
                          /\ result'.ret.reason = "Daily limit reached"
                    /\ (today < 3 /\ cooling) =>
                          /\ ~result'.ret.allowed
                          /\ result'.ret.reason = "Cooldown active"
                          /\ result'.ret.remaining = 120 - (now' - last)
                    /\ (today < 3 /\ ~cooling) =>
                          /\ result'.ret.allowed
                          /\ result'.ret.reason = "ok"
          /\ (IsRun(h) /\ ~IsCompletedRun(h)) =>
                /\ autopilot_state' = autopilot_state
                /\ db' = db
                /\ result'.ret = << >>
      ]_vars

\* Home 1 asked a minute after its third run of the day: refused, and the
\* reason given is the daily limit although the cooldown has a minute to go.
C40_Witness ==
    /\ unit_in.unit = "can_run_autopilot" /\ unit_in.home_id = 1
    /\ unit_in.runs[1].today = 3
    /\ now - unit_in.runs[1].last = 60
    /\ ~result.ret.allowed
    /\ result.ret.reason = "Daily limit reached"

\* Home 1 asked a minute after its first run: refused for the cooldown, with
\* 60 s remaining.
C40_CooldownReached ==
    /\ unit_in.unit = "can_run_autopilot" /\ unit_in.home_id = 1
    /\ unit_in.runs[1].today = 1
    /\ result.ret.reason = "Cooldown active"
    /\ result.ret.remaining = 60

\* A run for home 3, which has no preferences, after a run of home 1: no
\* entry for home 3, nothing returned.
C40_SkipReached ==
    /\ unit_in.unit = "run_autopilot_for_home" /\ unit_in.home_id = 3
    /\ result.ret = << >>
    /\ 3 \notin DOMAIN autopilot_state
    /\ 1 \in DOMAIN autopilot_state

====
